---- MODULE Spec2Model ----
(***************************************************************************)
(* EnhancedWSLChromeDebugger (src/wsl-chrome-mcp.py): the session store,  *)
(* the event log with its cap, the Remote-Debugging Client calls that go   *)
(* through the PowerShell bridge, the interaction primitives, the scenario *)
(* runner and analyze_webapp.                                              *)
(*                                                                         *)
(* The debugger is single-threaded.  Every bridge call is a blocking       *)
(* subprocess whose exit code and output the environment chooses; the      *)
(* actions draw each response from the sets below.  analyze_webapp and     *)
(* _run_test_scenarios are long handlers: they are cut at the points       *)
(* where the code moves from one phase to the next, and pc forces the      *)
(* phases to follow each other exactly as in the code.                     *)
(***************************************************************************)
EXTENDS Integers, Sequences, FiniteSets, TLC

\* ---- bounds of the exploration ----
MaxCap == 2          \* max_events is configured in 1..MaxCap
MaxSessions == 2     \* sessions registered in one behaviour
MaxTabs == 2         \* tab ids the browser may list
MaxCalls == 2        \* top-level calls made on the debugger in one behaviour
MaxScenarios == 2    \* length of a test_scenarios list
MaxRuns == 1         \* analyze_webapp / _run_test_scenarios calls in one behaviour, the last of them ends it
MaxPrefix == 1       \* calls that may precede an analyze_webapp / _run_test_scenarios call
MaxErrors == 1       \* errors the error script finds in the page
MaxTimeout == 1      \* timeout, in seconds, given to wait_for_element's script
MaxLate == 1         \* milliseconds a timer or a clock reading can be late
MaxLogs == 2         \* console logs of a session handed to the analyzers
MaxRequests == 2     \* network requests of a session handed to the analyzers
MaxFlows == 5        \* user flow steps of a session handed to the analyzers
MaxAnalyses == 3     \* analyze_webapp calls made one after the other

None == 0            \* Python None (ids of the model start at 1)

VARIABLES
    max_events,       \* self.max_events
    sessions,         \* self.sessions: session id -> DebugSession
    current_session,  \* self.current_session (None or a session id)
    pc,               \* position of the running handler ("idle" between calls)
    run,              \* locals of the running analyze_webapp / _run_test_scenarios
    last,             \* outcome of the last completed call (observation)
    iter,             \* the last iteration of the scenario loop (observation)
    ncalls,           \* number of top-level calls started (observation)
    nruns,            \* number of those that run an analysis or scenarios
    page              \* the wait script running in the page (its promise)

vars == <<max_events, sessions, current_session, pc, run, last, iter, ncalls, nruns, page>>

Min(a, b) == IF a < b THEN a ELSE b
Max(a, b) == IF a > b THEN a ELSE b

\* ---- Python helpers ----

\* seq[-n:] : the last n elements, and the whole list when n = 0 (-0 is 0)
PySliceLast(seq, n) ==
    IF n = 0 THEN seq
    ELSE SubSeq(seq, Max(1, Len(seq) - n + 1), Len(seq))

\* list.extend
Extend(seq, more) == seq \o more

\* ---- results of the Remote-Debugging Client ----

\* a result dict, by the keys the code looks at
NoResult      == [kind |-> "none",       success |-> FALSE, errors |-> <<>>]
\* {"error": "No tabs available"}
NoTabsResult  == [kind |-> "no_tabs",    success |-> FALSE, errors |-> <<>>]
\* {"error": stderr}
ErrorResult   == [kind |-> "error",      success |-> FALSE, errors |-> <<>>]
\* {"raw_output": stdout}
RawResult     == [kind |-> "raw_output", success |-> FALSE, errors |-> <<>>]
\* decoded JSON that is no dict
NonDictResult == [kind |-> "nondict",    success |-> FALSE, errors |-> <<>>]
\* {"result": {"value": {"success": ok, "errors": errs, ...}}}
ValueResult(ok, errs) == [kind |-> "value", success |-> ok, errors |-> errs]

\* ---- the bridge: what one powershell.exe run can answer ----

\* lists of distinct tab ids, in the order the browser lists them
TabIds == 1..MaxTabs
TabLists ==
    {t \in UNION {[1..n -> TabIds] : n \in 0..MaxTabs} :
        \A i, j \in 1..Len(t) : i # j => t[i] # t[j]}

\* answers to GET /json.  rc is the exit code; shape is the decoded stdout:
\* a JSON list, a dict whose 'value' is a list, a dict whose 'value' is no
\* list, any other JSON value, or text that is no JSON.
TabsResponses ==
    {[rc |-> 1, shape |-> "stderr", items |-> <<>>]}
    \cup {[rc |-> 0, shape |-> s, items |-> t] : s \in {"list", "value_list"}, t \in TabLists}
    \cup {[rc |-> 0, shape |-> s, items |-> <<>>] : s \in {"value_other", "other", "invalid"}}

\* answers to a script evaluation: exit code, and for exit 0 the decoded
\* stdout: a dict carrying result.value.success, a JSON value that is no
\* dict, or text that is no JSON.
EvalResponses ==
    {[rc |-> 1, shape |-> "stderr", success |-> FALSE, errors |-> <<>>]}
    \cup {[rc |-> 0, shape |-> "dict", success |-> b, errors |-> <<>>] : b \in BOOLEAN}
    \cup {[rc |-> 0, shape |-> s, success |-> FALSE, errors |-> <<>>] : s \in {"nondict", "invalid"}}

\* what the error script of get_page_errors can find in the page: entries
\* {type, message}, the message classed by the words the analyzers look for
PageErrors ==
    {[type |-> "react_error", message |-> "other"],
     [type |-> "javascript_error", message |-> "session"],
     [type |-> "javascript_error", message |-> "api"]}
ErrorLists == UNION {[1..n -> PageErrors] : n \in 0..MaxErrors}

\* answers to the error script: as above, the dict carrying result.value.errors
ErrorScriptResponses ==
    {[rc |-> 1, shape |-> "stderr", success |-> FALSE, errors |-> <<>>]}
    \cup {[rc |-> 0, shape |-> "dict", success |-> TRUE, errors |-> e] : e \in ErrorLists}
    \cup {[rc |-> 0, shape |-> s, success |-> FALSE, errors |-> <<>>] : s \in {"nondict", "invalid"}}

\* the request _powershell_request(method, endpoint, data) hands to
\* Invoke-RestMethod: with data, "-Method {method} -Body ..."; without data,
\* the uri alone, and the cmdlet's own method
InvokeRestMethodDefault == "GET"
NoData == FALSE
PowershellCommand(method, path, arg, data) ==
    [method |-> IF data THEN method ELSE InvokeRestMethodDefault, path |-> path, arg |-> arg]

\* the requests of get_version, list_tabs, create_tab, close_tab, activate_tab
GetVersionRequest == PowershellCommand("GET", "/json/version", None, NoData)
ListTabsRequest == PowershellCommand("GET", "/json", None, NoData)
CreateTabRequest(url) == PowershellCommand("GET", "/json/new?", url, NoData)
CloseTabRequest(tab_id) == PowershellCommand("DELETE", "/json/close/", tab_id, NoData)
ActivateTabRequest(tab_id) == PowershellCommand("POST", "/json/activate/", tab_id, NoData)

\* answers to a request whose decoded value is handed back as it is
PlainResponses ==
    {[rc |-> 1, shape |-> "stderr", items |-> <<>>],
     [rc |-> 0, shape |-> "other", items |-> <<>>],
     [rc |-> 0, shape |-> "invalid", items |-> <<>>]}

\* _powershell_request: raises on a non-zero exit, else json.loads(stdout),
\* and {"raw_output": stdout} when stdout is no JSON
PowershellRequest(resp) ==
    IF resp.rc # 0
    THEN [raised |-> TRUE, shape |-> "none", items |-> <<>>]
    ELSE IF resp.shape = "invalid"
    THEN [raised |-> FALSE, shape |-> "raw_output", items |-> <<>>]
    ELSE [raised |-> FALSE, shape |-> resp.shape, items |-> resp.items]

\* list_tabs: the list itself, response['value'] when that is a list, else []
ListTabs(resp) ==
    LET response == PowershellRequest(resp) IN
    IF response.raised THEN [raised |-> TRUE, tabs |-> <<>>]
    ELSE IF response.shape = "list" THEN [raised |-> FALSE, tabs |-> response.items]
    ELSE IF response.shape = "value_list" THEN [raised |-> FALSE, tabs |-> response.items]
    ELSE [raised |-> FALSE, tabs |-> <<>>]

\* _send_devtools_command / _execute_javascript: never raises
SendDevtoolsCommandMutIgnoresExitCode(resp) ==
    IF resp.shape \in {"invalid", "stderr"} THEN RawResult
    ELSE IF resp.shape = "nondict" THEN NonDictResult
    ELSE ValueResult(resp.success, resp.errors)

SendDevtoolsCommand(resp) ==
    IF resp.rc = 0
    THEN IF resp.shape = "invalid" THEN RawResult
         ELSE IF resp.shape = "nondict" THEN NonDictResult
         ELSE ValueResult(resp.success, resp.errors)
    ELSE ErrorResult

\* ---- the session store ----

\* DebugSession(session_id, url, start_time) with its default fields.
\* logged counts the events ever appended to the session (history: it gives
\* every DebugEvent its identity n, as the timestamp does in the code), and
\* completed the analyze_webapp calls that returned for it (history).
EmptyDict == [k \in {} |-> 0]

NewSessionMutPending(id, url) ==
    [session_id |-> id, url |-> url,
     events |-> <<>>, network_requests |-> <<>>, console_logs |-> <<>>,
     performance_metrics |-> EmptyDict, screenshots |-> <<>>,
     user_flows |-> <<>>, summary |-> [status |-> "pending"], logged |-> 0, completed |-> 0]

NewSession(id, url) ==
    [session_id |-> id, url |-> url,
     events |-> <<>>, network_requests |-> <<>>, console_logs |-> <<>>,
     performance_metrics |-> EmptyDict, screenshots |-> <<>>,
     user_flows |-> <<>>, summary |-> EmptyDict, logged |-> 0, completed |-> 0]

\* DebugEvent(timestamp, event_type, data, level, category)
DebugEvent(type, result, level, category) ==
    [n |-> 0, event_type |-> type, result |-> result, level |-> level, category |-> category]

\* session.events.append(event)
AppendEvent(s, ev) ==
    [s EXCEPT !.events = Append(@, [ev EXCEPT !.n = s.logged + 1]),
              !.logged = @ + 1]

\* _log_event: nothing without a current session; append, then keep the
\* last max_events when the list is longer than max_events
LogEventMutNoCap(ss, cur, cap, ev) ==
    IF cur = None THEN ss
    ELSE [ss EXCEPT ![cur] = AppendEvent(ss[cur], ev)]

LogEventMutDropNewest(ss, cur, cap, ev) ==
    IF cur = None THEN ss
    ELSE LET s == AppendEvent(ss[cur], ev) IN
         [ss EXCEPT ![cur] =
            IF Len(s.events) > cap
            THEN [s EXCEPT !.events = SubSeq(@, 1, cap)]
            ELSE s]

LogEvent(ss, cur, cap, ev) ==
    IF cur = None THEN ss
    ELSE LET s == AppendEvent(ss[cur], ev) IN
         [ss EXCEPT ![cur] =
            IF Len(s.events) > cap
            THEN [s EXCEPT !.events = PySliceLast(@, cap)]
            ELSE s]

\* ---- get_session_report ----

\* {"error": message}
ErrorDict(message) == [error |-> message]

\* "if session.summary:" holds of a dict that is not empty
GetSessionReportMutPendingSummary(ss, cur, session_id) ==
    LET id == IF session_id = None THEN cur ELSE session_id IN
    IF id = None \/ id \notin DOMAIN ss THEN ErrorDict("Session not found")
    ELSE ss[id].summary

GetSessionReport(ss, cur, session_id) ==
    LET id == IF session_id = None THEN cur ELSE session_id IN
    IF id = None \/ id \notin DOMAIN ss THEN ErrorDict("Session not found")
    ELSE IF DOMAIN ss[id].summary # {} THEN ss[id].summary
    ELSE ErrorDict("Session analysis not complete")

\* ---- interaction primitives ----

\* "if not tab_id: tabs = self.list_tabs(); if not tabs: return ...;
\*  tab_id = tabs[0].get('id')"
ResolveTabMutLast(tab_id, tabsResp) ==
    IF tab_id # None
    THEN [raised |-> FALSE, listed |-> FALSE, notabs |-> FALSE, target |-> tab_id]
    ELSE LET lt == ListTabs(tabsResp) IN
         IF lt.raised
         THEN [raised |-> TRUE, listed |-> TRUE, notabs |-> FALSE, target |-> None]
         ELSE IF lt.tabs = <<>>
         THEN [raised |-> FALSE, listed |-> TRUE, notabs |-> TRUE, target |-> None]
         ELSE [raised |-> FALSE, listed |-> TRUE, notabs |-> FALSE, target |-> lt.tabs[Len(lt.tabs)]]

ResolveTab(tab_id, tabsResp) ==
    IF tab_id # None
    THEN [raised |-> FALSE, listed |-> FALSE, notabs |-> FALSE, target |-> tab_id]
    ELSE LET lt == ListTabs(tabsResp) IN
         IF lt.raised
         THEN [raised |-> TRUE, listed |-> TRUE, notabs |-> FALSE, target |-> None]
         ELSE IF lt.tabs = <<>>
         THEN [raised |-> FALSE, listed |-> TRUE, notabs |-> TRUE, target |-> None]
         ELSE [raised |-> FALSE, listed |-> TRUE, notabs |-> FALSE, target |-> lt.tabs[1]]

\* the body shared by click_element, fill_input and wait_for_element: resolve
\* the tab, send the script, log the interaction when a session is current
InteractionOn(t, evtype, ss, cur, cap, evalResp) ==
    IF t.raised
    THEN [raised |-> TRUE, result |-> NoResult, listed |-> t.listed,
          target |-> None, sent |-> FALSE, sessions |-> ss]
    ELSE IF t.notabs
    THEN [raised |-> FALSE, result |-> NoTabsResult, listed |-> t.listed,
          target |-> None, sent |-> FALSE, sessions |-> ss]
    ELSE LET result == SendDevtoolsCommand(evalResp) IN
         [raised |-> FALSE, result |-> result, listed |-> t.listed,
          target |-> t.target, sent |-> TRUE,
          sessions |-> IF cur # None
                       THEN LogEvent(ss, cur, cap,
                                DebugEvent(evtype, result, "info", "interaction"))
                       ELSE ss]

Interaction(evtype, ss, cur, cap, tab_id, tabsResp, evalResp) ==
    InteractionOn(ResolveTab(tab_id, tabsResp), evtype, ss, cur, cap, evalResp)

ClickElement(ss, cur, cap, tab_id, tabsResp, evalResp) ==
    Interaction("element_clicked", ss, cur, cap, tab_id, tabsResp, evalResp)

FillInput(ss, cur, cap, tab_id, tabsResp, evalResp) ==
    Interaction("input_filled", ss, cur, cap, tab_id, tabsResp, evalResp)

WaitForElement(ss, cur, cap, tab_id, tabsResp, evalResp) ==
    Interaction("element_wait", ss, cur, cap, tab_id, tabsResp, evalResp)

\* ---- start_debug_session ----

\* answers to GET /json/new?<url>: a tab descriptor with an id, a dict
\* without one, a JSON value that is no dict, text that is no JSON
CreateTabResponses ==
    {[rc |-> 1, shape |-> "stderr", items |-> <<>>]}
    \cup {[rc |-> 0, shape |-> "dict_id", items |-> <<t>>] : t \in TabIds}
    \cup {[rc |-> 0, shape |-> s, items |-> <<>>] : s \in {"dict_noid", "nondict", "invalid"}}

\* uuid.uuid4(): an id no session has yet
FreshId(ss) == Cardinality(DOMAIN ss) + 1

Register(ss, id, url) ==
    [i \in DOMAIN ss \cup {id} |-> IF i = id THEN NewSession(id, url) ELSE ss[i]]

\* start_debug_session: the session is registered and made current, then
\* Chrome is started (raise when that fails), then the tab is created:
\* with a tab id, monitoring is enabled (six commands, none of which can
\* raise) and "session_started" is appended to the new session's events;
\* an exception of create_tab or of tab.get is logged as a warning.
StartDebugSessionMutCurrentAfterChrome(ss, cur, cap, url, chrome_ok, tabResp) ==
    LET id == FreshId(ss)
        ss1 == Register(ss, id, url)
        tab == PowershellRequest(tabResp)
    IN  IF ~chrome_ok
        THEN [raised |-> TRUE, sessions |-> ss1, current |-> cur]
        ELSE IF tab.raised \/ tab.shape = "nondict"
        THEN [raised |-> FALSE, current |-> id,
              sessions |-> LogEvent(ss1, id, cap,
                              DebugEvent("tab_creation_failed", NoResult, "warning", "general"))]
        ELSE IF tab.shape = "dict_id"
        THEN [raised |-> FALSE, current |-> id,
              sessions |-> [ss1 EXCEPT ![id] =
                              AppendEvent(@, DebugEvent("session_started", NoResult,
                                                        "info", "interaction"))]]
        ELSE [raised |-> FALSE, current |-> id, sessions |-> ss1]

StartDebugSession(ss, cur, cap, url, chrome_ok, tabResp) ==
    LET id == FreshId(ss)
        ss1 == Register(ss, id, url)
        tab == PowershellRequest(tabResp)
    IN  IF ~chrome_ok
        THEN [raised |-> TRUE, sessions |-> ss1, current |-> id]
        ELSE IF tab.raised \/ tab.shape = "nondict"
        THEN [raised |-> FALSE, current |-> id,
              sessions |-> LogEvent(ss1, id, cap,
                              DebugEvent("tab_creation_failed", NoResult, "warning", "general"))]
        ELSE IF tab.shape = "dict_id"
        THEN [raised |-> FALSE, current |-> id,
              sessions |-> [ss1 EXCEPT ![id] =
                              AppendEvent(@, DebugEvent("session_started", NoResult,
                                                        "info", "interaction"))]]
        ELSE [raised |-> FALSE, current |-> id, sessions |-> ss1]

\* ---- take_screenshot ----

\* answers to the capture request: exit code, and for exit 0 the decoded
\* stdout: a dict with result.data, a dict without it, a JSON scalar (on
\* which "'result' in response" raises TypeError), text that is no JSON
CaptureResponses ==
    {[rc |-> 1, shape |-> "stderr"]}
    \cup {[rc |-> 0, shape |-> s] : s \in {"data", "nodata", "scalar", "invalid"}}

\* answers to the full-screen capture of _take_screenshot_fallback
FallbackResponses == {[rc |-> 0], [rc |-> 1]}

\* _take_screenshot_fallback (the second definition, which replaces the first)
TakeScreenshotFallbackMutSaved(fbResp) ==
    IF fbResp.rc = 0 THEN "saved" ELSE "failed"

TakeScreenshotFallback(fbResp) ==
    IF fbResp.rc = 0 THEN "saved_fallback" ELSE "failed"

\* take_screenshot(save_path=...) without a tab id.  Neither it nor the
\* fallback touches the session: the lines that append to
\* session.screenshots are unreachable code after a return.
\* t is the tab it resolved; requested: the capture request was made;
\* fallback: _take_screenshot_fallback was called
Shot(raised, status, requested, fallback) ==
    [raised |-> raised, status |-> status, requested |-> requested, fallback |-> fallback]

TakeScreenshotOn(t, capResp, fbResp, save_path) ==
    IF t.raised \/ t.notabs THEN Shot(TRUE, "none", FALSE, FALSE)
    ELSE IF capResp.rc # 0
    THEN Shot(FALSE, TakeScreenshotFallback(fbResp), TRUE, TRUE)
    ELSE IF capResp.shape = "invalid" THEN Shot(FALSE, "failed", TRUE, FALSE)
    ELSE IF capResp.shape = "scalar" THEN Shot(TRUE, "none", TRUE, FALSE)
    ELSE IF capResp.shape = "data"
    THEN Shot(FALSE, IF save_path THEN "saved" ELSE "captured", TRUE, FALSE)
    ELSE Shot(FALSE, "failed", TRUE, FALSE)

TakeScreenshot(tabsResp, capResp, fbResp, save_path) ==
    TakeScreenshotOn(ResolveTab(None, tabsResp), capResp, fbResp, save_path)

\* the outcomes a take_screenshot(save_path=...) call can have
ScreenshotOutcomes ==
    {TakeScreenshot(t, c, f, TRUE) :
        t \in TabsResponses, c \in CaptureResponses, f \in FallbackResponses}

\* ---- collectors ----

\* get_page_errors: [] without tabs or without result.value.errors; the
\* errors are logged to the current session and returned
RECURSIVE LogErrors(_, _, _, _)
LogErrors(ss, cur, cap, errors) ==
    IF errors = <<>> THEN ss
    ELSE LogErrors(LogEvent(ss, cur, cap,
                      DebugEvent("javascript_error", NoResult, "error", "technical")),
                   cur, cap, Tail(errors))

GetPageErrors(ss, cur, cap, tabsResp, evalResp) ==
    LET t == ResolveTab(None, tabsResp) IN
    IF t.raised THEN [raised |-> TRUE, errors |-> <<>>, sessions |-> ss]
    ELSE IF t.notabs THEN [raised |-> FALSE, errors |-> <<>>, sessions |-> ss]
    ELSE LET result == SendDevtoolsCommand(evalResp) IN
         IF result.kind = "nondict"
         THEN [raised |-> TRUE, errors |-> <<>>, sessions |-> ss]
         ELSE IF result.kind = "value" /\ result.errors # <<>>
         THEN [raised |-> FALSE, errors |-> result.errors,
               sessions |-> IF cur # None THEN LogErrors(ss, cur, cap, result.errors) ELSE ss]
         ELSE [raised |-> FALSE, errors |-> <<>>, sessions |-> ss]

\* _collect_page_info
CollectPageInfo(ss, cur, cap, tabsResp) ==
    IF cur = None THEN ss
    ELSE LET lt == ListTabs(tabsResp) IN
         IF lt.raised
         THEN LogEvent(ss, cur, cap, DebugEvent("page_info_failed", NoResult, "error", "technical"))
         ELSE IF lt.tabs # <<>>
         THEN LogEvent(ss, cur, cap, DebugEvent("page_info_collected", NoResult, "info", "technical"))
         ELSE ss

\* _collect_console_logs
ConsoleLog(error) == [level |-> "error", message |-> error.message, type |-> error.type]
InfoLog == [level |-> "info", message |-> "other", type |-> "none"]

CollectConsoleLogs(ss, cur, cap, tabsResp, evalResp) ==
    LET g == GetPageErrors(ss, cur, cap, tabsResp, evalResp) IN
    IF g.raised
    THEN LogEvent(g.sessions, cur, cap,
             DebugEvent("console_collection_failed", NoResult, "error", "technical"))
    ELSE LET console_logs ==
                 Append([i \in 1..Len(g.errors) |-> ConsoleLog(g.errors[i])], InfoLog)
         IN  IF cur # None
             THEN [g.sessions EXCEPT ![cur].console_logs = Extend(@, console_logs)]
             ELSE g.sessions

\* _collect_network_activity: two fixed requests
SimulatedRequestsMutUnauthorized ==
    <<[url |-> "/api/auth/me", method |-> "GET", status |-> 401, failed |-> FALSE,
       error_message |-> "none"],
      [url |-> "/api/workouts", method |-> "GET", status |-> 200, failed |-> FALSE,
       error_message |-> "none"]>>

NetworkRequest(url, status) ==
    [url |-> url, method |-> "GET", status |-> status, failed |-> FALSE,
     error_message |-> "none"]
SimulatedRequests ==
    <<NetworkRequest("/api/auth/me", 200), NetworkRequest("/api/workouts", 200)>>

CollectNetworkActivity(ss, cur, cap) ==
    LET ss1 == IF cur # None
               THEN [ss EXCEPT ![cur].network_requests = Extend(@, SimulatedRequests)]
               ELSE ss
    IN  LogEvent(ss1, cur, cap, DebugEvent("network_activity_collected", NoResult, "info", "network"))

\* _collect_performance_metrics: fixed metrics (memory_usage in tenths)
SimulatedMetrics == [page_load_time |-> 1200, memory_usage |-> 456]

CollectPerformanceMetrics(ss, cur, cap) ==
    LET ss1 == IF cur # None
               THEN [ss EXCEPT ![cur].performance_metrics = SimulatedMetrics]
               ELSE ss
    IN  LogEvent(ss1, cur, cap,
            DebugEvent("performance_metrics_collected", NoResult, "info", "performance"))

\* ---- scenarios ----

\* the eight scenario strings of _execute_fitforge_scenario, and one text
\* that contains none of them.  No text of the model contains another, so
\* "fixed in scenario" is equality over them.
FixedScenarios ==
    <<"Navigate to /workouts page", "Click Start Workout button",
      "Select exercise from workout types", "Log a set with weight and reps",
      "Complete workout session", "Check progress analytics page",
      "Test CSV export functionality", "Verify user preferences">>
UnmatchedScenario == "Open the settings dialog"
ScenarioTexts == {FixedScenarios[i] : i \in 1..Len(FixedScenarios)} \cup {UnmatchedScenario}
Contains(scenario, fixed) == scenario = fixed

\* the bridge answers of one primitive call made without a tab id: a pair
\* <<answer to GET /json, answer to the script>>.  A scenario uses a call only
\* through whether it raised, whether it found no tab, and the result dict,
\* so one pair per such class is drawn.
PrimBridge == TabsResponses \X EvalResponses
PrimClass(b) ==
    LET t == ResolveTab(None, b[1]) IN
    [raised |-> t.raised, notabs |-> t.notabs,
     result |-> IF t.raised \/ t.notabs THEN NoResult ELSE SendDevtoolsCommand(b[2])]
ScenarioBridge ==
    {CHOOSE b \in PrimBridge : PrimClass(b) = c : c \in {PrimClass(b) : b \in PrimBridge}}

\* result.get('result', {}).get('value', {}).get('success', False):
\* AttributeError when the result is no dict
GetSuccess(result) ==
    [raised |-> result.kind = "nondict",
     value |-> result.kind = "value" /\ result.success]

\* what a _test_* method hands back: exc when an exception left it
Raised(ss) == [exc |-> TRUE, success |-> FALSE, sessions |-> ss]
Returned(ok, ss) == [exc |-> FALSE, success |-> ok, sessions |-> ss]

\* return X.get(...)... : the success flag of one result
ReturnSuccess(result, ss) ==
    IF GetSuccess(result).raised THEN Raised(ss) ELSE Returned(GetSuccess(result).value, ss)

\* a click followed by a wait, as five of the scenarios do: c1 is what the
\* click gave and c2 what the wait gave
ClickedAndWaited(c1, c2) ==
    IF c2.raised
    THEN [raised |-> TRUE, first |-> c1.result, second |-> NoResult, sessions |-> c1.sessions]
    ELSE [raised |-> FALSE, first |-> c1.result, second |-> c2.result, sessions |-> c2.sessions]

WaitAfterClick(c1, ss, cur, cap, b) ==
    IF c1.raised THEN [raised |-> TRUE, first |-> NoResult, second |-> NoResult, sessions |-> ss]
    ELSE ClickedAndWaited(c1, WaitForElement(c1.sessions, cur, cap, None, b[2][1], b[2][2]))

ClickThenWait(ss, cur, cap, b) ==
    WaitAfterClick(ClickElement(ss, cur, cap, None, b[1][1], b[1][2]), ss, cur, cap, b)

\* "return A.get(...success) and B.get(...success)" of a click r.first and a
\* wait r.second ("and" does not look at the second when the first is false)
SuccessOfBoth(r) ==
    IF r.raised THEN Raised(r.sessions)
    ELSE IF GetSuccess(r.first).raised THEN Raised(r.sessions)
    ELSE IF ~GetSuccess(r.first).value THEN Returned(FALSE, r.sessions)
    ELSE ReturnSuccess(r.second, r.sessions)

\* "return click_result.get(...success)" after a click and a wait
SuccessOfClick(r) ==
    IF r.raised THEN Raised(r.sessions) ELSE ReturnSuccess(r.first, r.sessions)

\* "return X_loaded.get(...success)" after a click and a wait
SuccessOfWait(r) ==
    IF r.raised THEN Raised(r.sessions) ELSE ReturnSuccess(r.second, r.sessions)

\* _test_navigate_to_workouts: click and wait, success of both
TestNavigateToWorkouts(ss, cur, cap, b) == SuccessOfBoth(ClickThenWait(ss, cur, cap, b))

\* _test_start_workout_button: click and wait, success of the click
TestStartWorkoutButton(ss, cur, cap, b) == SuccessOfClick(ClickThenWait(ss, cur, cap, b))

\* _test_select_exercise: click_element(..., timeout=3) is a TypeError,
\* click_element has no such parameter
TestSelectExercise(ss, cur, cap, b) == Raised(ss)

\* _test_log_set: fill, fill, click; success of either fill ("or" does not
\* look at the second when the first is true); its own try turns any
\* exception into False.  f1, f2, c3 are what the three calls gave.
LogSetResult(f1, f2, c3) ==
    IF c3.raised THEN Returned(FALSE, f2.sessions)
    ELSE IF GetSuccess(f1.result).raised THEN Returned(FALSE, c3.sessions)
    ELSE IF GetSuccess(f1.result).value THEN Returned(TRUE, c3.sessions)
    ELSE IF GetSuccess(f2.result).raised THEN Returned(FALSE, c3.sessions)
    ELSE Returned(GetSuccess(f2.result).value, c3.sessions)

LogSetClick(f1, f2, cur, cap, b) ==
    IF f2.raised THEN Returned(FALSE, f1.sessions)
    ELSE LogSetResult(f1, f2, ClickElement(f2.sessions, cur, cap, None, b[3][1], b[3][2]))

LogSetSecondFill(f1, ss, cur, cap, b) ==
    IF f1.raised THEN Returned(FALSE, ss)
    ELSE LogSetClick(f1, FillInput(f1.sessions, cur, cap, None, b[2][1], b[2][2]), cur, cap, b)

TestLogSet(ss, cur, cap, b) ==
    LogSetSecondFill(FillInput(ss, cur, cap, None, b[1][1], b[1][2]), ss, cur, cap, b)

\* _test_complete_workout: click and wait, success of the click
TestCompleteWorkout(ss, cur, cap, b) == SuccessOfClick(ClickThenWait(ss, cur, cap, b))

\* _test_progress_page: click and wait, success of the wait
TestProgressPage(ss, cur, cap, b) == SuccessOfWait(ClickThenWait(ss, cur, cap, b))

\* _test_csv_export: click, success of the click
CsvExportResult(c1, ss) ==
    IF c1.raised THEN Raised(ss) ELSE ReturnSuccess(c1.result, c1.sessions)

TestCsvExport(ss, cur, cap, b) ==
    CsvExportResult(ClickElement(ss, cur, cap, None, b[1][1], b[1][2]), ss)

\* _test_user_preferences: click and wait, success of the wait
TestUserPreferences(ss, cur, cap, b) == SuccessOfWait(ClickThenWait(ss, cur, cap, b))

\* what click_element(selector) reports on each answer of the bridge, for
\* the scenario whose click never comes about: does result.value.success hold
ClickReportsSuccess(ss, cur, cap, b) ==
    LET c == ClickElement(ss, cur, cap, None, b[1], b[2]) IN
    ~c.raised /\ GetSuccess(c.result).value
IntendedClicks(ss, cur, cap, scenario) ==
    IF Contains(scenario, FixedScenarios[3])
    THEN {ClickReportsSuccess(ss, cur, cap, b) : b \in ScenarioBridge}
    ELSE {FALSE}

\* the number of primitive calls a scenario makes at most
NumCalls(scenario) ==
    IF Contains(scenario, FixedScenarios[3]) \/ scenario = UnmatchedScenario THEN 0
    ELSE IF Contains(scenario, FixedScenarios[7]) THEN 1
    ELSE IF Contains(scenario, FixedScenarios[4]) THEN 3
    ELSE 2

\* _execute_fitforge_scenario: the first fixed string found in the text
\* selects the method; no match sleeps and returns True; an exception is
\* logged as an error event and gives False
ScenarioMethod(ss, cur, cap, scenario, b) ==
    IF Contains(scenario, FixedScenarios[1]) THEN TestNavigateToWorkouts(ss, cur, cap, b)
    ELSE IF Contains(scenario, FixedScenarios[2]) THEN TestStartWorkoutButton(ss, cur, cap, b)
    ELSE IF Contains(scenario, FixedScenarios[3]) THEN TestSelectExercise(ss, cur, cap, b)
    ELSE IF Contains(scenario, FixedScenarios[4]) THEN TestLogSet(ss, cur, cap, b)
    ELSE IF Contains(scenario, FixedScenarios[5]) THEN TestCompleteWorkout(ss, cur, cap, b)
    ELSE IF Contains(scenario, FixedScenarios[6]) THEN TestProgressPage(ss, cur, cap, b)
    ELSE IF Contains(scenario, FixedScenarios[7]) THEN TestCsvExport(ss, cur, cap, b)
    ELSE IF Contains(scenario, FixedScenarios[8]) THEN TestUserPreferences(ss, cur, cap, b)
    ELSE Returned(TRUE, ss)

ScenarioCaught(r, cur, cap) ==
    IF r.exc
    THEN [success |-> FALSE,
          sessions |-> LogEvent(r.sessions, cur, cap,
                          DebugEvent("scenario_execution_error", NoResult, "error", "general"))]
    ELSE [success |-> r.success, sessions |-> r.sessions]

ExecuteFitforgeScenario(ss, cur, cap, scenario, b) ==
    ScenarioCaught(ScenarioMethod(ss, cur, cap, scenario, b), cur, cap)

\* UserFlowStep(step_name=f"scenario_{i}", action=scenario): step_name is
\* the number i of the name, timing is in seconds
UserFlowStep(i, scenario, success, error_message, timing) ==
    [step_name |-> i, action |-> scenario, success |-> success,
     error_message |-> error_message, timing |-> timing]

\* the body of the try of one iteration once _execute_fitforge_scenario
\* has given e: the step and its event
ScenarioRecorded(e, cur, cap, i, scenario, timing) ==
    IF e.success
    THEN [step |-> UserFlowStep(i, scenario, TRUE, "none", timing),
          raised |-> FALSE, executed |-> TRUE,
          sessions |-> LogEvent(e.sessions, cur, cap,
                          DebugEvent("scenario_executed", NoResult, "info", "interaction"))]
    ELSE [step |-> UserFlowStep(i, scenario, FALSE, "Scenario execution failed", timing),
          raised |-> FALSE, executed |-> TRUE,
          sessions |-> LogEvent(e.sessions, cur, cap,
                          DebugEvent("scenario_failed", NoResult, "error", "interaction"))]

\* one iteration of the loop of _run_test_scenarios: the screenshot, the
\* scenario, the step and its event; an exception of either is caught, so
\* raised (an exception leaving the loop) is never set
RunScenarioMutPropagates(ss, cur, cap, i, scenario, shot, b, timing) ==
    IF shot.raised
    THEN [step |-> UserFlowStep(i, scenario, FALSE, "exception", timing),
          raised |-> TRUE, executed |-> FALSE,
          sessions |-> LogEvent(ss, cur, cap,
                          DebugEvent("scenario_failed", NoResult, "error", "interaction"))]
    ELSE ScenarioRecorded(ExecuteFitforgeScenario(ss, cur, cap, scenario, b), cur, cap, i, scenario, timing)

RunScenarioMutDefaultSuccess(ss, cur, cap, i, scenario, shot, b, timing) ==
    IF shot.raised
    THEN [step |-> UserFlowStep(i, scenario, TRUE, "exception", timing),
          raised |-> FALSE, executed |-> FALSE,
          sessions |-> LogEvent(ss, cur, cap,
                          DebugEvent("scenario_failed", NoResult, "error", "interaction"))]
    ELSE ScenarioRecorded(ExecuteFitforgeScenario(ss, cur, cap, scenario, b), cur, cap, i, scenario, timing)

RunScenario(ss, cur, cap, i, scenario, shot, b, timing) ==
    IF shot.raised
    THEN [step |-> UserFlowStep(i, scenario, FALSE, "exception", timing),
          raised |-> FALSE, executed |-> FALSE,
          sessions |-> LogEvent(ss, cur, cap,
                          DebugEvent("scenario_failed", NoResult, "error", "interaction"))]
    ELSE ScenarioRecorded(ExecuteFitforgeScenario(ss, cur, cap, scenario, b), cur, cap, i, scenario, timing)

\* ---- the perspective analyzers ----

\* the words the analyzers look for, by the texts in which text.lower()
\* contains them: the console messages and request urls of the model, and
\* the scenario texts
WordsIn(text) ==
    CASE text = "session" -> {"session"}
      [] text = "api" -> {"api"}
      [] text = "Session and API" -> {"session", "api"}
      [] text = "/api/auth/me" -> {"/api/", "api"}
      [] text = "/api/workouts" -> {"/api/", "api", "workout"}
      [] text = FixedScenarios[1] -> {"navigate", "workout"}
      [] text = FixedScenarios[2] -> {"workout"}
      [] text = FixedScenarios[3] -> {"workout"}
      [] text = FixedScenarios[5] -> {"workout", "session"}
      [] OTHER -> {}

\* word in text.lower()
LowerContains(text, word) == word \in WordsIn(text)

\* dict.get(key, 0)
Get(dict, key) == IF key \in DOMAIN dict THEN dict[key] ELSE 0

\* one entry of a critical_issues list: "<kind>: <about>", and for a
\* perspective's score entry "<PERSPECTIVE>: Score <score> ..."
Issue(kind, about, score) == [kind |-> kind, about |-> about, score |-> score]

\* [f"...: {err.get('message')}" for err in errors]
Issues(kind, errors) == [i \in 1..Len(errors) |-> Issue(kind, errors[i].message, 0)]

\* "score = 100", the four "if len(...) > 0: score -= ..." and max(score, 0)
\* of _analyze_technical
TechnicalScoreMutApiPenalty(console_errors, failed_requests, session_errors, react_errors) ==
    Max(100 - (IF Len(console_errors) > 0 THEN 15 ELSE 0)
            - (IF Len(failed_requests) > 0 THEN 10 ELSE 0)
            - (IF Len(session_errors) > 0 THEN 25 ELSE 0)
            - (IF Len(react_errors) > 0 THEN 20 ELSE 0)
            - (IF \E i \in 1..Len(console_errors) :
                     LowerContains(console_errors[i].message, "api") THEN 5 ELSE 0), 0)

TechnicalScore(console_errors, failed_requests, session_errors, react_errors) ==
    Max(100 - (IF Len(console_errors) > 0 THEN 15 ELSE 0)
            - (IF Len(failed_requests) > 0 THEN 10 ELSE 0)
            - (IF Len(session_errors) > 0 THEN 25 ELSE 0)
            - (IF Len(react_errors) > 0 THEN 20 ELSE 0), 0)

\* _analyze_technical
AnalyzeTechnical(session) ==
    LET IsError(log) == log.level = "error"
        IsFailed(req) == req.failed
        IsSession(log) == LowerContains(log.message, "session")
        IsApi(log) == LowerContains(log.message, "api")
        IsReact(log) == log.type = "react_error"
        console_errors == SelectSeq(session.console_logs, IsError)
        failed_requests == SelectSeq(session.network_requests, IsFailed)
        session_errors == SelectSeq(console_errors, IsSession)
        api_errors == SelectSeq(console_errors, IsApi)
        react_errors == SelectSeq(console_errors, IsReact)
        critical_issues == Issues("Session management error", session_errors)
                           \o Issues("React component error", react_errors)
                           \o Issues("API error", api_errors)
        recommendations ==
            (IF session_errors # <<>> THEN <<"URGENT: Fix session management">> ELSE <<>>)
            \o (IF react_errors # <<>> THEN <<"Fix React component errors">> ELSE <<>>)
            \o (IF console_errors # <<>> THEN <<"Address JavaScript console errors">> ELSE <<>>)
            \o (IF critical_issues = <<>> THEN <<"Technical implementation looks solid">> ELSE <<>>)
    IN  [score |-> TechnicalScore(console_errors, failed_requests, session_errors, react_errors),
         console_errors |-> Len(console_errors),
         session_errors |-> Len(session_errors),
         react_errors |-> Len(react_errors),
         api_errors |-> Len(api_errors),
         failed_requests |-> Len(failed_requests),
         total_requests |-> Len(session.network_requests),
         critical_issues |-> critical_issues,
         recommendations |-> recommendations]

\* sum(flow.timing or 0 for flow in flows)
RECURSIVE SumTiming(_)
SumTiming(flows) ==
    IF flows = <<>> THEN 0 ELSE Head(flows).timing + SumTiming(Tail(flows))

\* "score = 100", the three penalties and max(score, 0) of _analyze_ux;
\* "avg_interaction_time > 5.0" is total > 5 * count
UxScoreMutNoClamp(failed_flows, workout_flow_failures, total, count) ==
    100 - (IF Len(failed_flows) > 0 THEN Len(failed_flows) * 15 ELSE 0)
        - (IF Len(workout_flow_failures) > 0 THEN 25 ELSE 0)
        - (IF total > 5 * count THEN 10 ELSE 0)

UxScoreMutSlowAbove3(failed_flows, workout_flow_failures, total, count) ==
    Max(100 - (IF Len(failed_flows) > 0 THEN Len(failed_flows) * 15 ELSE 0)
            - (IF Len(workout_flow_failures) > 0 THEN 25 ELSE 0)
            - (IF total > 3 * count THEN 10 ELSE 0), 0)

UxScore(failed_flows, workout_flow_failures, total, count) ==
    Max(100 - (IF Len(failed_flows) > 0 THEN Len(failed_flows) * 15 ELSE 0)
            - (IF Len(workout_flow_failures) > 0 THEN 25 ELSE 0)
            - (IF total > 5 * count THEN 10 ELSE 0), 0)

\* _analyze_ux.  "avg_interaction_time > t" is sum > t * max(len, 1); the
\* rounded average itself is not kept.
AnalyzeUx(session) ==
    LET IsFailure(flow) == ~flow.success
        IsSuccess(flow) == flow.success
        IsWorkout(flow) == LowerContains(flow.action, "workout")
        IsNavigate(flow) == LowerContains(flow.action, "navigate")
        failed_flows == SelectSeq(session.user_flows, IsFailure)
        successful_flows == SelectSeq(session.user_flows, IsSuccess)
        total == SumTiming(session.user_flows)
        count == Max(Len(session.user_flows), 1)
        workout_flow_failures == SelectSeq(failed_flows, IsWorkout)
        navigation_failures == SelectSeq(failed_flows, IsNavigate)
        usability_issues ==
            [i \in 1..Len(failed_flows) |->
                [action |-> failed_flows[i].action,
                 error |-> IF failed_flows[i].error_message = "none"
                           THEN "Unknown error" ELSE failed_flows[i].error_message]]
        recommendations ==
            (IF workout_flow_failures # <<>> THEN <<"CRITICAL: Fix workout flow">> ELSE <<>>)
            \o (IF navigation_failures # <<>> THEN <<"Fix navigation issues">> ELSE <<>>)
            \o (IF total > 3 * count THEN <<"Optimize interaction responsiveness">> ELSE <<>>)
            \o (IF Len(failed_flows) = 0 THEN <<"User experience flows are working well">> ELSE <<>>)
    IN  [score |-> UxScore(failed_flows, workout_flow_failures, total, count),
         failed_user_flows |-> Len(failed_flows),
         successful_user_flows |-> Len(successful_flows),
         total_user_flows |-> Len(session.user_flows),
         workout_flow_failures |-> Len(workout_flow_failures),
         navigation_failures |-> Len(navigation_failures),
         usability_issues |-> usability_issues,
         recommendations |-> recommendations]

\* "A" if score > 85 else "B" if score > 70 else "C"
Grade(above85, above70) == IF above85 THEN "A" ELSE IF above70 THEN "B" ELSE "C"

\* _analyze_performance (memory_usage is in tenths, so 100 is 1000)
AnalyzePerformance(session) ==
    LET page_load == Get(session.performance_metrics, "page_load_time")
        memory == Get(session.performance_metrics, "memory_usage")
        score == 90 - (IF page_load > 3000 THEN 20 ELSE 0)
                    - (IF memory > 1000 THEN 15 ELSE 0)
    IN  [score |-> Max(score, 0),
         page_load_time |-> page_load,
         memory_usage |-> memory,
         performance_grade |-> Grade(score > 85, score > 70),
         bottlenecks |-> <<IF page_load > 3000 THEN "Slow page load time" ELSE "None",
                           IF memory > 1000 THEN "High memory usage" ELSE "None">>,
         recommendations |->
             IF score < 80
             THEN <<"Optimize bundle size and loading", "Implement performance monitoring">>
             ELSE <<"Performance is within acceptable ranges">>]

\* "score": 95 if len(successful_apis) == len(api_requests) else 75
DataScoreMutByMagnitude(successful_apis, api_requests) ==
    IF Len(successful_apis) = Len(api_requests) THEN 95
    ELSE IF Len(api_requests) - Len(successful_apis) = 1 THEN 85 ELSE 75

DataScore(successful_apis, api_requests) ==
    IF Len(successful_apis) = Len(api_requests) THEN 95 ELSE 75

\* _analyze_data (the success rate, a float, is not kept)
AnalyzeData(session) ==
    LET IsApiRequest(req) == LowerContains(req.url, "/api/")
        IsSuccessful(req) == req.status # None /\ 200 <= req.status /\ req.status < 300
        IsFailed(req) == req.failed
        api_requests == SelectSeq(session.network_requests, IsApiRequest)
        successful_apis == SelectSeq(api_requests, IsSuccessful)
        failed_apis == SelectSeq(api_requests, IsFailed)
    IN  [score |-> DataScore(successful_apis, api_requests),
         total_api_calls |-> Len(api_requests),
         successful_api_calls |-> Len(successful_apis),
         data_issues |-> [i \in 1..Len(failed_apis) |-> failed_apis[i].error_message],
         recommendations |->
             IF Len(successful_apis) < Len(api_requests)
             THEN <<"Implement better API error handling", "Add retry logic for failed requests">>
             ELSE <<"Data flow is working correctly">>]

\* self.perspectives, in the order of the dict
Perspectives == <<"technical", "ux", "performance", "data">>

\* the analyzers of self.perspectives, applied to the session in turn
AnalyzeMutCountsErrorEvents(session) ==
    [technical |->
         [AnalyzeTechnical(session) EXCEPT
             !.score = Max(@ - 5 * Cardinality({i \in 1..Len(session.events) :
                                                   session.events[i].level = "error"}), 0)],
     ux |-> AnalyzeUx(session),
     performance |-> AnalyzePerformance(session),
     data |-> AnalyzeData(session)]

\* "for perspective, analyzer in self.perspectives.items():
\*      analysis[perspective] = analyzer(session)"
Analyze(session) ==
    [technical |-> AnalyzeTechnical(session),
     ux |-> AnalyzeUx(session),
     performance |-> AnalyzePerformance(session),
     data |-> AnalyzeData(session)]

\* ---- the report ----

\* round(total / count, 1), in tenths.  total / count is a float; for the
\* count of four it is a multiple of 0.25, which a float holds exactly, and
\* round() sends an exact tie to the even tenth.
RoundedMeanMutHalfUp(total, count) ==
    LET q == (10 * total) \div count
        r == (10 * total) % count
    IN  IF 2 * r < count THEN q ELSE q + 1

RoundedMean(total, count) ==
    LET q == (10 * total) \div count
        r == (10 * total) % count
    IN  IF 2 * r < count THEN q
        ELSE IF 2 * r > count THEN q + 1
        ELSE IF q % 2 = 0 THEN q ELSE q + 1

RECURSIVE SumScores(_, _)
SumScores(analysis, names) ==
    IF names = <<>> THEN 0 ELSE analysis[Head(names)].score + SumScores(analysis, Tail(names))

\* _extract_critical_issues: per perspective, in the order of the dict
PerspectiveIssuesMutAtMost(perspective, data) ==
    (IF data.score <= 70 THEN <<Issue("Score", perspective, data.score)>> ELSE <<>>)
    \o (IF "critical_issues" \in DOMAIN data THEN data.critical_issues ELSE <<>>)

PerspectiveIssues(perspective, data) ==
    (IF data.score < 70 THEN <<Issue("Score", perspective, data.score)>> ELSE <<>>)
    \o (IF "critical_issues" \in DOMAIN data THEN data.critical_issues ELSE <<>>)

ExtractCriticalIssues(analysis) ==
    PerspectiveIssues("technical", analysis.technical)
    \o PerspectiveIssues("ux", analysis.ux)
    \o PerspectiveIssues("performance", analysis.performance)
    \o PerspectiveIssues("data", analysis.data)

\* _extract_recommendations: "[<PERSPECTIVE>] <rec>", per perspective
PerspectiveRecommendations(perspective, data) ==
    [i \in 1..Len(data.recommendations) |->
        [perspective |-> perspective, text |-> data.recommendations[i]]]

ExtractRecommendations(analysis) ==
    PerspectiveRecommendations("technical", analysis.technical)
    \o PerspectiveRecommendations("ux", analysis.ux)
    \o PerspectiveRecommendations("performance", analysis.performance)
    \o PerspectiveRecommendations("data", analysis.data)

\* _suggest_next_steps
NextSteps(steps) ==
    IF steps = <<>> THEN <<"Continue monitoring - application appears healthy">> ELSE steps

SuggestNextSteps(analysis) ==
    NextSteps(
        (IF analysis.technical.score < 80
         THEN <<"Fix JavaScript errors and failed API requests">> ELSE <<>>)
        \o (IF analysis.ux.score < 80
            THEN <<"Test and fix user interaction flows">> ELSE <<>>)
        \o (IF analysis.performance.score < 80
            THEN <<"Optimize page load times and memory usage">> ELSE <<>>)
        \o (IF analysis.data.score < 80
            THEN <<"Improve API reliability and error handling">> ELSE <<>>))

CountLevel(events, level) == Cardinality({i \in 1..Len(events) : events[i].level = level})

\* _generate_debug_report (without the two clock readings analysis_time and
\* duration_minutes).  overall_score is in tenths; the grade is taken from
\* the mean before it is rounded: total / count > 85 is total > 85 * count.
ScoredReportMutAtLeast(session, analysis, total, count) ==
    [session_id |-> session.session_id,
     url |-> session.url,
     overall_score |-> RoundedMean(total, count),
     health_grade |-> Grade(total >= 85 * count, total >= 70 * count),
     summary |-> [total_events |-> Len(session.events),
                  errors |-> CountLevel(session.events, "error"),
                  warnings |-> CountLevel(session.events, "warning"),
                  screenshots_taken |-> Len(session.screenshots),
                  user_flows_tested |-> Len(session.user_flows)],
     perspectives |-> analysis,
     critical_issues |-> ExtractCriticalIssues(analysis),
     recommendations |-> ExtractRecommendations(analysis),
     next_steps |-> SuggestNextSteps(analysis)]

ScoredReport(session, analysis, total, count) ==
    [session_id |-> session.session_id,
     url |-> session.url,
     overall_score |-> RoundedMean(total, count),
     health_grade |-> Grade(total > 85 * count, total > 70 * count),
     summary |-> [total_events |-> Len(session.events),
                  errors |-> CountLevel(session.events, "error"),
                  warnings |-> CountLevel(session.events, "warning"),
                  screenshots_taken |-> Len(session.screenshots),
                  user_flows_tested |-> Len(session.user_flows)],
     perspectives |-> analysis,
     critical_issues |-> ExtractCriticalIssues(analysis),
     recommendations |-> ExtractRecommendations(analysis),
     next_steps |-> SuggestNextSteps(analysis)]

GenerateDebugReport(session, analysis) ==
    ScoredReport(session, analysis, SumScores(analysis, Perspectives), Len(Perspectives))

\* ---- the script of wait_for_element, as it runs in the page ----

\* Times are milliseconds since startTime.  A clock reading (Date.now()) and
\* a timer (setTimeout) can be late by 0..MaxLate.
PollInterval == 100
MsPerSecond == 1000

\* phase: "none" (no script), "polling" (a timer is pending), "found" and
\* "timed_out" (the promise is resolved).  due: the time the pending timer
\* was set for; elapsed and present: the clock and the element at the last
\* checkElement; polls: checkElement calls so far; seen: the element was
\* present at one of them; success, found, waitTime: the resolved value.
NoPage ==
    [phase |-> "none", timeout |-> 0, due |-> 0, elapsed |-> 0, present |-> FALSE,
     polls |-> 0, seen |-> FALSE, success |-> FALSE, found |-> FALSE, waitTime |-> 0]

\* checkElement() run at clock reading now, the element present or not;
\* later is the clock reading taken for waitTime
CheckElementMutLateTimeout(p, now, present, later) ==
    IF present
    THEN [p EXCEPT !.phase = "found", !.elapsed = now, !.present = TRUE,
                   !.polls = @ + 1, !.seen = TRUE,
                   !.success = TRUE, !.found = TRUE, !.waitTime = later]
    ELSE IF now > p.timeout + 2 * PollInterval
    THEN [p EXCEPT !.phase = "timed_out", !.elapsed = now, !.present = FALSE,
                   !.polls = @ + 1,
                   !.success = FALSE, !.found = FALSE, !.waitTime = later]
    ELSE [p EXCEPT !.phase = "polling", !.elapsed = now, !.present = FALSE,
                   !.polls = @ + 1, !.due = now + PollInterval]

CheckElement(p, now, present, later) ==
    IF present
    THEN [p EXCEPT !.phase = "found", !.elapsed = now, !.present = TRUE,
                   !.polls = @ + 1, !.seen = TRUE,
                   !.success = TRUE, !.found = TRUE, !.waitTime = later]
    ELSE IF now > p.timeout
    THEN [p EXCEPT !.phase = "timed_out", !.elapsed = now, !.present = FALSE,
                   !.polls = @ + 1,
                   !.success = FALSE, !.found = FALSE, !.waitTime = later]
    ELSE [p EXCEPT !.phase = "polling", !.elapsed = now, !.present = FALSE,
                   !.polls = @ + 1, !.due = now + PollInterval]

\* ---- observation of a completed call ----

\* op and arg: the call and the tab id it was given (for analyze_webapp:
\* whether it was given a url); raised: it raised; result: the dict it
\* returned; listed: it listed the tabs, and tabs is what list_tabs returned;
\* sent and target: it sent a script, and to which tab; answer: the bridge's
\* answer to a list_tabs call of the user
NoAnswer == [rc |-> 0, shape |-> "none", items |-> <<>>]
NoShot == Shot(FALSE, "none", FALSE, FALSE)
NoRequest == [method |-> "none", path |-> "none", arg |-> None]
NoReport == ErrorDict("none")
Outcome(op, arg, raised, result, listed, target, sent, tabs) ==
    [op |-> op, arg |-> arg, raised |-> raised, result |-> result, listed |-> listed,
     target |-> target, sent |-> sent, tabs |-> tabs, answer |-> NoAnswer, shot |-> NoShot,
     request |-> NoRequest, report |-> NoReport]

Urls == {"fitforge"}
NoUrl == ""          \* url=None (or an empty url: "not url" holds of both)

Done(op, arg, raised) == Outcome(op, arg, raised, NoResult, FALSE, None, FALSE, <<>>)
Running(op, arg) ==
    Outcome(op, arg, FALSE, [NoResult EXCEPT !.kind = "running"], FALSE, None, FALSE, <<>>)
UrlGiven(url) == IF url # NoUrl THEN 1 ELSE None

NoRun == [caller |-> "none", scenarios |-> <<>>, idx |-> 0, flow_results |-> <<>>]

\* idx, scenario: the iteration; nobrowser: every bridge call it made failed
\* or listed no tabs; executed: it reached _execute_fitforge_scenario;
\* step: the UserFlowStep it built; clickable: the browser was such that
\* the click of _test_select_exercise reports success
NoIter == [idx |-> 0, scenario |-> "none", nobrowser |-> FALSE, executed |-> FALSE,
           step |-> UserFlowStep(0, "none", TRUE, "none", None), clickable |-> FALSE]

\* test_scenarios: no list, every list of one text, and the lists of up to
\* MaxScenarios texts over the scenario that raises and the unmatched one
LongListTexts == {FixedScenarios[3], UnmatchedScenario}
ScenarioLists ==
    UNION {[1..n -> ScenarioTexts] : n \in 0..1}
    \cup UNION {[1..n -> LongListTexts] : n \in 2..MaxScenarios}

\* time.time() - start_time of one iteration of the scenario loop, in
\* seconds: a quick one and one slower than the 5 s the UX analyzer allows
ScenarioTimings == {2, 6}

\* the answers to GET /json a collector can tell apart: one per outcome of
\* list_tabs (raised, no tab, some tab)
TabsClass(resp) == <<ListTabs(resp).raised, ListTabs(resp).tabs = <<>>>>
TabsBridge ==
    {CHOOSE r \in TabsResponses : TabsClass(r) = c : c \in {TabsClass(r) : r \in TabsResponses}}

\* the bridge answers of one take_screenshot call whose status is not looked
\* at: one triple per "it raised" and per "the tab listing failed or listed
\* nothing"
ShotBridge == TabsResponses \X CaptureResponses \X FallbackResponses
NoTabsListed(tabsResp) == ListTabs(tabsResp).raised \/ ListTabs(tabsResp).tabs = <<>>
ShotClass(b) == <<TakeScreenshot(b[1], b[2], b[3], TRUE).raised, NoTabsListed(b[1])>>
ScreenshotBridge ==
    {CHOOSE b \in ShotBridge : ShotClass(b) = c : c \in {ShotClass(b) : b \in ShotBridge}}


Init ==
    /\ max_events \in 1..MaxCap
    /\ sessions = [id \in {} |-> NewSession(id, "fitforge")]
    /\ current_session = None
    /\ pc = "idle"
    /\ run = NoRun
    /\ last = Outcome("init", None, FALSE, NoResult, FALSE, None, FALSE, <<>>)
    /\ iter = NoIter
    /\ ncalls = 0
    /\ nruns = 0
    /\ page = NoPage

Idle == pc = "idle" /\ ncalls < MaxCalls /\ nruns < MaxRuns
RunIdle == Idle /\ ncalls <= MaxPrefix

\* ---- list_tabs called by the user ----
CallListTabs ==
    /\ Idle
    /\ UNCHANGED page
    /\ \E resp \in TabsResponses :
         LET r == ListTabs(resp) IN
         last' = [Outcome("list_tabs", None, r.raised, NoResult, TRUE, None, FALSE, r.tabs)
                     EXCEPT !.answer = resp, !.request = ListTabsRequest]
    /\ ncalls' = ncalls + 1
    /\ UNCHANGED <<max_events, sessions, current_session, pc, run>>
    /\ iter' = NoIter
    /\ nruns' = nruns

\* ---- get_version, create_tab, close_tab, activate_tab called by the user ----
CallClient(op, arg, request) ==
    /\ Idle
    /\ UNCHANGED page
    /\ \E resp \in PlainResponses :
         last' = [Outcome(op, arg, PowershellRequest(resp).raised, NoResult, FALSE, None,
                          FALSE, <<>>)
                     EXCEPT !.answer = resp, !.request = request]
    /\ ncalls' = ncalls + 1
    /\ UNCHANGED <<max_events, sessions, current_session, pc, run>>
    /\ iter' = NoIter
    /\ nruns' = nruns

CallGetVersion == CallClient("get_version", None, GetVersionRequest)
CallCreateTab == \E url \in Urls : CallClient("create_tab", url, CreateTabRequest(url))
CallCloseTab == \E tab_id \in TabIds : CallClient("close_tab", tab_id, CloseTabRequest(tab_id))
CallActivateTab ==
    \E tab_id \in TabIds : CallClient("activate_tab", tab_id, ActivateTabRequest(tab_id))

\* ---- the interaction primitives called by the user ----
CallPrimitive(op) ==
    /\ Idle
    /\ UNCHANGED page
    /\ \E tab_id \in {None} \cup TabIds, tabsResp \in TabsResponses, evalResp \in EvalResponses :
         LET r == CASE op = "click_element" ->
                         ClickElement(sessions, current_session, max_events, tab_id, tabsResp, evalResp)
                    [] op = "fill_input" ->
                         FillInput(sessions, current_session, max_events, tab_id, tabsResp, evalResp)
                    [] OTHER ->
                         WaitForElement(sessions, current_session, max_events, tab_id, tabsResp, evalResp)
         IN  /\ sessions' = r.sessions
             /\ last' = Outcome(op, tab_id, r.raised, r.result, r.listed, r.target, r.sent,
                                IF r.listed THEN ListTabs(tabsResp).tabs ELSE <<>>)
    /\ ncalls' = ncalls + 1
    /\ UNCHANGED <<max_events, current_session, pc, run>>
    /\ iter' = NoIter
    /\ nruns' = nruns

CallClickElement == CallPrimitive("click_element")
CallFillInput == CallPrimitive("fill_input")
CallWaitForElement == CallPrimitive("wait_for_element")

\* ---- _execute_javascript called on a tab ----
CallExecuteJavascript ==
    /\ Idle
    /\ UNCHANGED page
    /\ \E tab_id \in TabIds, evalResp \in EvalResponses :
         last' = [Outcome("execute_javascript", tab_id, FALSE, SendDevtoolsCommand(evalResp),
                          FALSE, tab_id, TRUE, <<>>)
                     EXCEPT !.answer = evalResp]
    /\ ncalls' = ncalls + 1
    /\ UNCHANGED <<max_events, sessions, current_session, pc, run>>
    /\ iter' = NoIter
    /\ nruns' = nruns

\* ---- take_screenshot called by the user ----
CallTakeScreenshot ==
    /\ Idle
    /\ UNCHANGED page
    /\ \E tab_id \in {None} \cup TabIds, save_path \in BOOLEAN, tabsResp \in TabsResponses,
          capResp \in CaptureResponses, fbResp \in FallbackResponses :
         LET t == ResolveTab(tab_id, tabsResp) IN
         \E shot \in {TakeScreenshotOn(t, capResp, fbResp, save_path)} :
             last' = [Outcome("take_screenshot", tab_id, shot.raised, NoResult, t.listed,
                              t.target, shot.requested,
                              IF t.listed THEN ListTabs(tabsResp).tabs ELSE <<>>)
                         EXCEPT !.answer = [rc |-> capResp.rc, shape |-> capResp.shape,
                                            items |-> <<>>],
                                !.shot = shot]
    /\ ncalls' = ncalls + 1
    /\ UNCHANGED <<max_events, sessions, current_session, pc, run>>
    /\ iter' = NoIter
    /\ nruns' = nruns

\* ---- get_session_report called by the user, also after a run ----
SessionIds == 1..(MaxSessions + 1)

CallGetSessionReport ==
    /\ pc = "idle"
    /\ ncalls < MaxCalls
    /\ UNCHANGED page
    /\ \E session_id \in {None} \cup SessionIds :
         last' = [Outcome("get_session_report", session_id, FALSE, NoResult, FALSE, None,
                          FALSE, <<>>)
                     EXCEPT !.report = GetSessionReport(sessions, current_session, session_id)]
    /\ ncalls' = ncalls + 1
    /\ UNCHANGED <<max_events, sessions, current_session, pc, run>>
    /\ iter' = NoIter
    /\ nruns' = nruns

\* ---- start_debug_session called by the user ----
CallStartDebugSession ==
    /\ Idle
    /\ UNCHANGED page
    /\ Cardinality(DOMAIN sessions) < MaxSessions
    /\ \E url \in Urls, chrome_ok \in BOOLEAN, tabResp \in CreateTabResponses :
         LET r == StartDebugSession(sessions, current_session, max_events, url, chrome_ok, tabResp) IN
         /\ sessions' = r.sessions
         /\ current_session' = r.current
         /\ last' = Done("start_debug_session", None, r.raised)
    /\ ncalls' = ncalls + 1
    /\ UNCHANGED <<max_events, pc, run>>
    /\ iter' = NoIter
    /\ nruns' = nruns

\* ---- analyze_webapp ----

\* the initial screenshot of analyze_webapp, after session_id is known: an
\* exception of take_screenshot leaves analyze_webapp
AnalyzeScreenshot(ss, cur, url, scenarios) ==
    \E sb \in ScreenshotBridge :
        LET shot == TakeScreenshot(sb[1], sb[2], sb[3], TRUE) IN
        /\ sessions' = ss
        /\ current_session' = cur
        /\ IF shot.raised
           THEN /\ pc' = "idle"
                /\ run' = NoRun
                /\ last' = Done("analyze_webapp", UrlGiven(url), TRUE)
           ELSE /\ pc' = "collect"
                /\ run' = [caller |-> "analyze_webapp", scenarios |-> scenarios,
                           idx |-> 0, flow_results |-> <<>>]
                /\ last' = Running("analyze_webapp", UrlGiven(url))

\* analyze_webapp(url, test_scenarios) up to the initial screenshot
AnalyzeBegin ==
    /\ RunIdle
    /\ UNCHANGED page
    /\ ncalls' = ncalls + 1
    /\ nruns' = nruns + 1
    /\ iter' = NoIter
    /\ UNCHANGED max_events
    /\ \E url \in {NoUrl} \cup Urls, scenarios \in ScenarioLists :
         IF url = NoUrl /\ current_session = None
         THEN \* ValueError
              /\ last' = Done("analyze_webapp", None, TRUE)
              /\ UNCHANGED <<sessions, current_session, pc, run>>
         ELSE IF url # NoUrl
         THEN /\ Cardinality(DOMAIN sessions) < MaxSessions
              /\ \E chrome_ok \in BOOLEAN, tabResp \in CreateTabResponses :
                   LET st == StartDebugSession(sessions, current_session, max_events,
                                               url, chrome_ok, tabResp) IN
                   IF st.raised
                   THEN /\ sessions' = st.sessions
                        /\ current_session' = st.current
                        /\ last' = Done("analyze_webapp", UrlGiven(url), TRUE)
                        /\ UNCHANGED <<pc, run>>
                   ELSE AnalyzeScreenshot(st.sessions, st.current, url, scenarios)
         ELSE AnalyzeScreenshot(sessions, current_session, url, scenarios)

\* the four collectors, then on to the scenarios or to the report
AnalyzeCollect ==
    /\ pc = "collect"
    /\ UNCHANGED page
    /\ \E infoResp \in TabsBridge, tabsResp \in TabsBridge, evalResp \in ErrorScriptResponses :
         LET s1 == CollectPageInfo(sessions, current_session, max_events, infoResp)
             s2 == CollectConsoleLogs(s1, current_session, max_events, tabsResp, evalResp)
             s3 == CollectNetworkActivity(s2, current_session, max_events)
             s4 == CollectPerformanceMetrics(s3, current_session, max_events)
         IN  sessions' = s4
    /\ IF run.scenarios # <<>>
       THEN /\ pc' = "scenario"
            /\ run' = [run EXCEPT !.idx = 1]
       ELSE /\ pc' = "report"
            /\ run' = run
    /\ UNCHANGED <<max_events, current_session, last, iter, ncalls, nruns>>

\* _run_test_scenarios called on its own
CallRunTestScenarios ==
    /\ RunIdle
    /\ UNCHANGED page
    /\ ncalls' = ncalls + 1
    /\ \E scenarios \in ScenarioLists :
         IF scenarios = <<>>
         THEN /\ last' = Done("run_test_scenarios", None, FALSE)
              /\ UNCHANGED <<pc, run>>
         ELSE /\ pc' = "scenario"
              /\ run' = [caller |-> "run_test_scenarios", scenarios |-> scenarios,
                         idx |-> 1, flow_results |-> <<>>]
              /\ last' = Running("run_test_scenarios", None)
    /\ iter' = NoIter
    /\ nruns' = nruns + 1
    /\ UNCHANGED <<max_events, sessions, current_session>>

\* one iteration of the loop of _run_test_scenarios; after the last one the
\* steps are added to the current session's user_flows
ScenarioStep ==
    /\ pc = "scenario"
    /\ UNCHANGED page
    /\ LET i == run.idx
           scenario == run.scenarios[i]
       IN  \E sb \in ScreenshotBridge, b \in [1..NumCalls(scenario) -> ScenarioBridge],
              timing \in ScenarioTimings,
              clickable \in IntendedClicks(sessions, current_session, max_events, scenario) :
           \E r \in {RunScenario(sessions, current_session, max_events, i, scenario,
                                  TakeScreenshot(sb[1], sb[2], sb[3], TRUE), b, timing)} :
             LET flow_results == Append(run.flow_results, r.step)
                 caller == run.caller
             IN  /\ iter' = [idx |-> i, scenario |-> scenario, nobrowser |-> NoTabsListed(sb[1]),
                             executed |-> r.executed, step |-> r.step,
                             clickable |-> clickable]
                 /\ IF r.raised
                    THEN /\ sessions' = r.sessions
                         /\ pc' = "idle"
                         /\ run' = NoRun
                         /\ last' = Done(caller, last.arg, TRUE)
                    ELSE IF i < Len(run.scenarios)
                    THEN /\ sessions' = r.sessions
                         /\ pc' = "scenario"
                         /\ run' = [run EXCEPT !.idx = i + 1, !.flow_results = flow_results]
                         /\ last' = last
                    ELSE /\ sessions' =
                               IF current_session # None
                               THEN [r.sessions EXCEPT ![current_session].user_flows =
                                                          Extend(@, flow_results)]
                               ELSE r.sessions
                         /\ IF caller = "analyze_webapp"
                            THEN /\ pc' = "report"
                                 /\ run' = [run EXCEPT !.flow_results = flow_results]
                                 /\ last' = last
                            ELSE /\ pc' = "idle"
                                 /\ run' = NoRun
                                 /\ last' = Done(caller, last.arg, FALSE)
    /\ UNCHANGED <<max_events, current_session, ncalls, nruns>>

\* the analyzers and the report: session.summary = report; return report
AnalyzeReport ==
    /\ pc = "report"
    /\ UNCHANGED page
    /\ sessions' = [sessions EXCEPT
                       ![current_session].summary =
                           GenerateDebugReport(sessions[current_session],
                                               Analyze(sessions[current_session])),
                       ![current_session].completed = @ + 1]
    /\ pc' = "idle"
    /\ run' = NoRun
    /\ last' = Done("analyze_webapp", last.arg, FALSE)
    /\ UNCHANGED <<max_events, current_session, iter, ncalls, nruns>>

Next ==
    \/ CallListTabs
    \/ CallGetVersion
    \/ CallCreateTab
    \/ CallCloseTab
    \/ CallActivateTab
    \/ CallClickElement
    \/ CallFillInput
    \/ CallWaitForElement
    \/ CallExecuteJavascript
    \/ CallTakeScreenshot
    \/ CallGetSessionReport
    \/ CallStartDebugSession
    \/ CallRunTestScenarios
    \/ AnalyzeBegin
    \/ AnalyzeCollect
    \/ ScenarioStep
    \/ AnalyzeReport

Spec == Init /\ [][Next]_vars

\* ---- the wait script on its own ----

\* the promise executor: timeout and startTime are set and checkElement is
\* called at once
WaitScriptStart ==
    /\ page.phase = "none"
    /\ \E timeout \in 0..MaxTimeout, now \in 0..MaxLate, late \in 0..MaxLate, present \in BOOLEAN :
         page' = CheckElement([NoPage EXCEPT !.timeout = timeout * MsPerSecond],
                              now, present, now + late)
    /\ UNCHANGED <<max_events, sessions, current_session, pc, run, last, iter, ncalls, nruns>>

\* the timer set by setTimeout(checkElement, 100) fires
CheckElementTimer ==
    /\ page.phase = "polling"
    /\ \E lateness \in 0..MaxLate, late \in 0..MaxLate, present \in BOOLEAN :
         page' = CheckElement(page, page.due + lateness, present, page.due + lateness + late)
    /\ UNCHANGED <<max_events, sessions, current_session, pc, run, last, iter, ncalls, nruns>>

WaitNext ==
    \/ WaitScriptStart
    \/ CheckElementTimer

\* the page's event loop runs a timer that is due
WaitSpec == Init /\ [][WaitNext]_vars /\ WF_vars(CheckElementTimer)
\* ---- the analyzers and the report on any session ----

\* The analyzers and the report generator are functions of a DebugSession.
\* The sessions below are built field by field, as a caller can build a
\* DebugSession, and each is handed to the last step of analyze_webapp.

SeqsUpTo(S, n) == UNION {[1..k -> S] : k \in 0..n}

\* console logs: the info record, and error records by type and message
LogInputs ==
    {InfoLog,
     [level |-> "error", message |-> "other", type |-> "react_error"],
     [level |-> "error", message |-> "session", type |-> "javascript_error"],
     [level |-> "error", message |-> "api", type |-> "javascript_error"],
     [level |-> "error", message |-> "Session and API", type |-> "javascript_error"]}

\* network requests: api requests with a status at and around the bounds of
\* 200 <= status < 300, one without a status that failed, and a failed
\* request that is no api request
RequestInputs ==
    {NetworkRequest("/api/workouts", 200),
     NetworkRequest("/api/workouts", 299),
     NetworkRequest("/api/workouts", 199),
     NetworkRequest("/api/auth/me", 300),
     [NetworkRequest("/api/auth/me", None) EXCEPT !.failed = TRUE, !.error_message = "timeout"],
     [NetworkRequest("/static/app.js", 404) EXCEPT !.failed = TRUE, !.error_message = "not found"]}

\* user flow steps: failed or not, the action with or without "workout" in
\* it, quick or slow
FlowInputs ==
    {UserFlowStep(1, FixedScenarios[1], FALSE, "Scenario execution failed", 7),
     UserFlowStep(1, FixedScenarios[7], FALSE, "none", 2),
     UserFlowStep(1, UnmatchedScenario, TRUE, "none", 1)}

\* performance metrics: none, the collector's, and values at and above the
\* thresholds
MetricInputs ==
    {EmptyDict, SimulatedMetrics,
     [page_load_time |-> 3000, memory_usage |-> 1000],
     [page_load_time |-> 3001, memory_usage |-> 1001]}

EventInputs ==
    {<<>>, <<[DebugEvent("scenario_failed", NoResult, "error", "interaction") EXCEPT !.n = 1]>>}

SessionWith(logs, requests, flows, metrics, events) ==
    [NewSession(1, "fitforge") EXCEPT
        !.console_logs = logs, !.network_requests = requests, !.user_flows = flows,
        !.performance_metrics = metrics, !.events = events, !.logged = Len(events)]

\* every list of logs and of requests with few flows, and every list of
\* flows with few logs and requests
SessionInputs ==
    {SessionWith(logs, requests, flows, metrics, <<>>) :
        logs \in SeqsUpTo(LogInputs, MaxLogs),
        requests \in SeqsUpTo(RequestInputs, MaxRequests),
        flows \in SeqsUpTo(FlowInputs, 0),
        metrics \in MetricInputs}
    \cup
    {SessionWith(logs, <<>>, flows, SimulatedMetrics, events) :
        logs \in SeqsUpTo(LogInputs, 1),
        flows \in SeqsUpTo(FlowInputs, MaxFlows),
        events \in EventInputs}

ReportInit ==
    /\ max_events = MaxCap
    /\ \E session \in SessionInputs : sessions = [id \in {1} |-> session]
    /\ current_session = 1
    /\ pc = "report"
    /\ run = [caller |-> "analyze_webapp", scenarios |-> <<>>, idx |-> 0, flow_results |-> <<>>]
    /\ last = Running("analyze_webapp", None)
    /\ iter = NoIter
    /\ ncalls = 1
    /\ nruns = 1
    /\ page = NoPage

ReportSpec == ReportInit /\ [][AnalyzeReport]_vars

\* ---- analyze_webapp as one call, on a browser that answers alike ----

\* the loop of _run_test_scenarios from scenario i on, when every screenshot
\* of the run has the outcome shot, every primitive call the answers pb and
\* every iteration takes timing seconds; at the end the steps are added to
\* the current session's user_flows
RECURSIVE RunTestScenariosFrom(_, _, _, _, _, _, _, _, _)
RECURSIVE RunTestScenariosNext(_, _, _, _, _, _, _, _, _)
RunTestScenariosFrom(ss, cur, cap, scenarios, i, flows, shot, pb, timing) ==
    IF i > Len(scenarios)
    THEN IF cur # None THEN [ss EXCEPT ![cur].user_flows = Extend(@, flows)] ELSE ss
    ELSE RunTestScenariosNext(
             RunScenario(ss, cur, cap, i, scenarios[i], shot,
                         [k \in 1..NumCalls(scenarios[i]) |-> pb], timing),
             cur, cap, scenarios, i, flows, shot, pb, timing)

RunTestScenariosNext(r, cur, cap, scenarios, i, flows, shot, pb, timing) ==
    RunTestScenariosFrom(r.sessions, cur, cap, scenarios, i + 1, Append(flows, r.step),
                         shot, pb, timing)

\* "if test_scenarios: self._run_test_scenarios(test_scenarios)"
RunTestScenarios(ss, cur, cap, scenarios, shot, pb, timing) ==
    IF scenarios = <<>> THEN ss
    ELSE RunTestScenariosFrom(ss, cur, cap, scenarios, 1, <<>>, shot, pb, timing)

\* the four collectors, in the order analyze_webapp calls them
Collected(ss, cur, cap, infoResp, tabsResp, evalResp) ==
    CollectPerformanceMetrics(
        CollectNetworkActivity(
            CollectConsoleLogs(CollectPageInfo(ss, cur, cap, infoResp),
                               cur, cap, tabsResp, evalResp),
            cur, cap),
        cur, cap)

\* "report = self._generate_debug_report(session, analysis);
\*  session.summary = report; return report"
ReportStored(ss, id) ==
    [raised |-> FALSE,
     sessions |-> [ss EXCEPT ![id].summary = GenerateDebugReport(ss[id], Analyze(ss[id])),
                             ![id].completed = @ + 1],
     report |-> GenerateDebugReport(ss[id], Analyze(ss[id]))]

\* analyze_webapp(test_scenarios=scenarios) on the current session cur:
\* shot0 is the outcome of the initial screenshot, which leaves
\* analyze_webapp when it raises
AnalyzeWebapp(ss, cur, cap, scenarios, shot0, infoResp, tabsResp, evalResp, shot, pb, timing) ==
    IF shot0.raised THEN [raised |-> TRUE, sessions |-> ss, report |-> NoReport]
    ELSE ReportStored(
             RunTestScenarios(Collected(ss, cur, cap, infoResp, tabsResp, evalResp),
                              cur, cap, scenarios, shot, pb, timing),
             cur)

\* ---- analyze_webapp called again and again ----

\* the scenario lists of these calls: none, and one scenario that runs
\* without a primitive call
RepeatedLists == {<<>>, <<UnmatchedScenario>>}

\* analyze_webapp(url, test_scenarios) once the session st.current is known
\* (st: what start_debug_session gave, or the store as it was)
AnalyzeStarted(st, cap, scenarios, shot0, infoResp, tabsResp, evalResp, shot, pb, timing) ==
    IF st.raised
    THEN [raised |-> TRUE, sessions |-> st.sessions, current |-> st.current,
          report |-> NoReport]
    ELSE [current |-> st.current] @@
         AnalyzeWebapp(st.sessions, st.current, cap, scenarios, shot0, infoResp, tabsResp,
                       evalResp, shot, pb, timing)

\* what start_debug_session(url) can give, and the store as it is when no
\* url is given
StartOutcomes(ss, cur, cap, url) ==
    IF url = NoUrl
    THEN {[raised |-> FALSE, sessions |-> ss, current |-> cur]}
    ELSE {StartDebugSession(ss, cur, cap, url, chrome_ok, tabResp) :
             chrome_ok \in BOOLEAN, tabResp \in CreateTabResponses}

\* one call: the browser answers GET /json alike to both collectors, both
\* screenshots have the same outcome, and the scenario takes the shortest
\* time
RepeatAnalyze ==
    /\ pc = "idle"
    /\ ncalls < MaxAnalyses
    /\ \E url \in {NoUrl} \cup Urls, scenarios \in RepeatedLists :
         /\ url # NoUrl => Cardinality(DOMAIN sessions) < MaxSessions
         /\ IF url = NoUrl /\ current_session = None
            THEN \* ValueError
                 /\ last' = Done("analyze_webapp", None, TRUE)
                 /\ UNCHANGED <<sessions, current_session>>
            ELSE \E st \in StartOutcomes(sessions, current_session, max_events, url),
                    sb \in ScreenshotBridge, tabsResp \in TabsBridge,
                    evalResp \in ErrorScriptResponses :
                 \E a \in {AnalyzeStarted(st, max_events, scenarios,
                              TakeScreenshot(sb[1], sb[2], sb[3], TRUE),
                              tabsResp, tabsResp, evalResp,
                              TakeScreenshot(sb[1], sb[2], sb[3], TRUE),
                              CHOOSE pb \in ScenarioBridge : TRUE,
                              CHOOSE t \in ScenarioTimings : \A u \in ScenarioTimings : t <= u)} :
                   /\ sessions' = a.sessions
                   /\ current_session' = a.current
                   /\ last' = [Done("analyze_webapp", UrlGiven(url), a.raised)
                                  EXCEPT !.report = a.report]
    /\ ncalls' = ncalls + 1
    /\ nruns' = nruns + 1
    /\ UNCHANGED <<max_events, pc, run, iter, page>>

RepeatSpec == Init /\ [][RepeatAnalyze]_vars

\* ---- debug_fitforge ----

\* the keys of report['summary'] whose value is a number (a len(...) of
\* _generate_debug_report): len() of such a value is a TypeError
SummaryCounts ==
    {"total_events", "errors", "warnings", "screenshots_taken", "user_flows_tested"}
LenRaises(summary, key) == key \in DOMAIN summary /\ key \in SummaryCounts

\* the prints of debug_fitforge after the analysis: the one that raises is
\* len(analysis_report['summary']['screenshots_taken'])
PrintReportRaises(report) == LenRaises(report.summary, "screenshots_taken")

\* return None
ReturnedNone == [returned |-> "None"]

\* what debug_fitforge has come to: the kind tells how far it got
DebugOutcome(kind, report) ==
    [Outcome("debug_fitforge", None, FALSE, [NoResult EXCEPT !.kind = kind], FALSE, None,
             FALSE, <<>>)
        EXCEPT !.report = report]

\* debugger = EnhancedWSLChromeDebugger()
DebugInit ==
    /\ max_events \in 1..MaxCap
    /\ sessions = [id \in {} |-> NewSession(id, "fitforge")]
    /\ current_session = None
    /\ pc = "debug_start"
    /\ run = NoRun
    /\ last = Outcome("init", None, FALSE, NoResult, FALSE, None, FALSE, <<>>)
    /\ iter = NoIter
    /\ ncalls = 0
    /\ nruns = 0
    /\ page = NoPage

\* session_id = debugger.start_debug_session(fitforge_url, "FitForge_Debug");
\* an exception is printed and None returned
DebugStartSession ==
    /\ pc = "debug_start"
    /\ \E url \in Urls, chrome_ok \in BOOLEAN, tabResp \in CreateTabResponses :
         LET st == StartDebugSession(sessions, current_session, max_events, url, chrome_ok,
                                     tabResp) IN
         /\ sessions' = st.sessions
         /\ current_session' = st.current
         /\ IF st.raised
            THEN /\ pc' = "idle"
                 /\ last' = DebugOutcome("start_raised", ReturnedNone)
            ELSE /\ pc' = "debug_analyze"
                 /\ last' = DebugOutcome("started", NoReport)
    /\ ncalls' = ncalls + 1
    /\ UNCHANGED <<max_events, run, iter, nruns, page>>

\* the run of the eight fixed scenarios, on a browser that answers alike
\* during the run: every screenshot has the outcome shot, every primitive
\* call the answers pb and every iteration takes timing seconds
DebugRun(shot, pb, timing) ==
    [caller |-> "debug_fitforge", scenarios |-> FixedScenarios, idx |-> 1,
     flow_results |-> <<>>, shot |-> shot, pb |-> pb, timing |-> timing]

\* analysis_report = debugger.analyze_webapp(test_scenarios=test_scenarios):
\* the initial screenshot, which leaves analyze_webapp when it raises, and
\* the four collectors
DebugAnalyze ==
    /\ pc = "debug_analyze"
    /\ \E sb0 \in ScreenshotBridge, infoResp \in TabsBridge, tabsResp \in TabsBridge,
          evalResp \in ErrorScriptResponses, sb \in ScreenshotBridge, pb \in ScenarioBridge,
          timing \in ScenarioTimings :
         IF TakeScreenshot(sb0[1], sb0[2], sb0[3], TRUE).raised
         THEN /\ pc' = "idle"
              /\ last' = DebugOutcome("analysis_raised", ReturnedNone)
              /\ UNCHANGED <<sessions, run>>
         ELSE /\ pc' = "debug_scenario"
              /\ sessions' = Collected(sessions, current_session, max_events,
                                       infoResp, tabsResp, evalResp)
              /\ run' = DebugRun(TakeScreenshot(sb[1], sb[2], sb[3], TRUE), pb, timing)
              /\ UNCHANGED last
    /\ nruns' = nruns + 1
    /\ UNCHANGED <<max_events, current_session, iter, ncalls, page>>

\* one iteration of the loop of _run_test_scenarios
DebugScenario ==
    /\ pc = "debug_scenario"
    /\ run.idx <= Len(run.scenarios)
    /\ \E r \in {RunScenario(sessions, current_session, max_events, run.idx,
                             run.scenarios[run.idx], run.shot,
                             [k \in 1..NumCalls(run.scenarios[run.idx]) |-> run.pb],
                             run.timing)} :
         /\ sessions' = r.sessions
         /\ run' = [run EXCEPT !.idx = @ + 1, !.flow_results = Append(@, r.step)]
    /\ UNCHANGED <<max_events, current_session, pc, last, iter, ncalls, nruns, page>>

\* after the loop: the steps are added to the session's user_flows; then
\* the analyzers and the report, which analyze_webapp stores and returns
DebugReport ==
    /\ pc = "debug_scenario"
    /\ run.idx > Len(run.scenarios)
    /\ \E a \in {ReportStored([sessions EXCEPT
                                  ![current_session].user_flows = Extend(@, run.flow_results)],
                              current_session)} :
         /\ sessions' = a.sessions
         /\ last' = DebugOutcome("analysed", a.report)
    /\ pc' = "debug_print"
    /\ run' = NoRun
    /\ UNCHANGED <<max_events, current_session, iter, ncalls, nruns, page>>

\* the prints, "return analysis_report", and the except branch around all
\* of it: "return None"
DebugPrint ==
    /\ pc = "debug_print"
    /\ pc' = "idle"
    /\ last' = IF PrintReportRaises(last.report)
               THEN DebugOutcome("analysed", ReturnedNone)
               ELSE DebugOutcome("analysed", last.report)
    /\ UNCHANGED <<max_events, sessions, current_session, run, iter, ncalls, nruns, page>>

DebugNext ==
    \/ DebugStartSession
    \/ DebugAnalyze
    \/ DebugScenario
    \/ DebugReport
    \/ DebugPrint

DebugSpec == DebugInit /\ [][DebugNext]_vars

\* ---- properties ----

Prims == {"click_element", "fill_input", "wait_for_element"}
LastEvent(s) == sessions[s].events[Len(sessions[s].events)]

\* C1: in every reachable state, whatever calls were made, no session holds
\* more than max_events events.
EventsNeverExceedCap ==
    \A s \in DOMAIN sessions : Len(sessions[s].events) <= max_events

\* a session that was logged to more often than max_events and holds
\* exactly max_events events
EvictionHappened ==
    \E s \in DOMAIN sessions :
        /\ sessions[s].logged > max_events
        /\ Len(sessions[s].events) = max_events

\* C2: after N events were logged to a session, its events list is the last
\* min(N, max_events) of them, in the order they were logged (event n of the
\* session is the n-th one logged to it).
EventsAreTheLatest ==
    \A s \in DOMAIN sessions :
        LET events == sessions[s].events
            N == sessions[s].logged
        IN  /\ Len(events) = Min(N, max_events)
            /\ \A i \in 1..Len(events) : events[i].n = N - Len(events) + i

\* four or more events logged under a cap of two: the two newest are held,
\* older one first
TwoNewestKept ==
    /\ max_events = 2
    /\ \E s \in DOMAIN sessions :
        /\ sessions[s].logged >= 4
        /\ sessions[s].events[1].n = sessions[s].logged - 1
        /\ sessions[s].events[2].n = sessions[s].logged

\* C3: a session's summary is empty as long as no analyze_webapp call has
\* returned for it (also after one that raised part-way), and not empty
\* once one has.
SummaryEmptyUntilAnalyzed ==
    \A s \in DOMAIN sessions :
        (sessions[s].completed = 0) <=> (DOMAIN sessions[s].summary = {})

\* analyze_webapp has returned for the current session, whose summary is set
AnalysisReturned ==
    /\ pc = "idle"
    /\ last.op = "analyze_webapp"
    /\ ~last.raised
    /\ current_session # None
    /\ sessions[current_session].completed = 1
    /\ DOMAIN sessions[current_session].summary # {}

\* C4: each iteration of the scenario loop handles the scenario of its index
\* once and moves to the next index whatever its outcome, no exception leaves
\* the loop, and when the loop ends with a session current, that session's
\* user_flows has grown by exactly one step per scenario, named scenario_1..k
\* in order, each with its scenario text as action.
RunRecordsEveryScenario ==
    [][pc = "scenario" =>
        /\ iter'.idx = run.idx
        /\ iter'.scenario = run.scenarios[run.idx]
        /\ ~last'.raised
        /\ pc' = "scenario" =>
              /\ run.idx < Len(run.scenarios)
              /\ run'.idx = run.idx + 1
              /\ run'.flow_results = Append(run.flow_results, iter'.step)
        /\ (pc' # "scenario" /\ current_session # None) =>
              LET k == Len(run.scenarios)
                  before == sessions[current_session].user_flows
                  after == sessions'[current_session].user_flows
              IN  /\ run.idx = k
                  /\ Len(after) = Len(before) + k
                  /\ SubSeq(after, 1, Len(before)) = before
                  /\ \A i \in 1..k :
                        /\ after[Len(before) + i].step_name = i
                        /\ after[Len(before) + i].action = run.scenarios[i]
    ]_vars

\* two scenarios were run: the first failed, the second was run all the same
\* and succeeded, and both are recorded
FailureThenLaterScenarioRecorded ==
    /\ current_session # None
    /\ LET flows == sessions[current_session].user_flows IN
        /\ Len(flows) = 2
        /\ ~flows[1].success
        /\ flows[2].step_name = 2
        /\ flows[2].success

AnalyzeWithoutUrlNeverRaises ==
    ~(/\ last.op = "analyze_webapp"
      /\ last.arg = None
      /\ current_session # None
      /\ last.raised)

\* C7 (as claimed): a start_debug_session call that raises leaves the session
\* store and the current-session pointer as they were.
FailedStartChangesNothing ==
    [][(ncalls' # ncalls /\ last'.op = "start_debug_session" /\ last'.raised) =>
          /\ sessions' = sessions
          /\ current_session' = current_session
    ]_vars

\* C8 (as claimed): list_tabs never raises; it returns the listed tabs in
\* order when the bridge answers with a list, and the empty sequence on every
\* other answer, a non-zero exit included.
ListTabsNeverRaises ==
    last.op = "list_tabs" =>
        /\ ~last.raised
        /\ IF last.answer.rc = 0 /\ last.answer.shape \in {"list", "value_list"}
           THEN last.tabs = last.answer.items
           ELSE last.tabs = <<>>

\* C9: a click_element, fill_input or wait_for_element call that returns has
\* sent its script to the tab id it was given, without listing the tabs, or,
\* given none, to the first tab list_tabs returned; given none and an empty
\* list it returned {"error": "No tabs available"} and sent nothing.
PrimitiveTargetsGivenOrFirstTab ==
    (last.op \in Prims /\ ~last.raised) =>
        /\ last.arg # None => (~last.listed /\ last.sent /\ last.target = last.arg)
        /\ (last.arg = None /\ last.tabs # <<>>) =>
              (last.listed /\ last.sent /\ last.target = last.tabs[1])
        /\ (last.arg = None /\ last.tabs = <<>>) =>
              (last.listed /\ ~last.sent /\ last.result = NoTabsResult)

\* wait_for_element, given no tab id while two tabs are listed, went to the
\* first of them
WaitWentToFirstOfTwoTabs ==
    /\ last.op = "wait_for_element"
    /\ last.arg = None
    /\ Len(last.tabs) = 2
    /\ last.sent
    /\ last.target = last.tabs[1]

\* C10 (as claimed): every click_element, fill_input or wait_for_element call
\* that returns while a session is current appends exactly one interaction
\* event, carrying the call's result, to that session.
EveryPrimitiveCallIsLogged ==
    [][(/\ ncalls' # ncalls
        /\ last'.op \in Prims
        /\ ~last'.raised
        /\ current_session # None) =>
          /\ sessions'[current_session].logged = sessions[current_session].logged + 1
          /\ LET events == sessions'[current_session].events IN
                /\ events[Len(events)].category = "interaction"
                /\ events[Len(events)].result = last'.result
    ]_vars
\* C11 (as claimed): a "found" result carries a waitTime strictly below the
\* timeout, a checkElement run at exactly the timeout that finds no element
\* resolves to "timed out", and a "timed out" result carries a waitTime of at
\* least the timeout.
WaitFoundOnlyBeforeTimeout ==
    /\ page.phase = "found" => page.waitTime < page.timeout
    /\ (page.polls > 0 /\ page.elapsed = page.timeout /\ ~page.present) =>
          page.phase = "timed_out"
    /\ page.phase = "timed_out" => page.waitTime >= page.timeout

\* C12: the polling loop always resolves, and when the element was never
\* there it resolves to the "timed out" result (success false, found false)
\* after at most timeout / 100 + 2 runs of checkElement.
WaitResolvesWhenNeverFound ==
    /\ (page.phase = "polling") ~> (page.phase \in {"found", "timed_out"})
    /\ [](page.polls <= page.timeout \div PollInterval + 2)
    /\ []((page.phase \in {"found", "timed_out"} /\ ~page.seen) =>
            /\ page.phase = "timed_out"
            /\ ~page.success
            /\ ~page.found)

\* a wait of one second timed out on its twelfth checkElement, the element
\* never seen
WaitTimedOutAfterAllPolls ==
    /\ page.phase = "timed_out"
    /\ ~page.seen
    /\ page.timeout = MsPerSecond
    /\ page.polls = page.timeout \div PollInterval + 2
\* C13: the report's overall_score is the mean of exactly the four
\* perspective scores (technical, ux, performance, data; tenths here),
\* rounded to one decimal: it is within half a tenth of the mean, and every
\* tie is resolved by the same rule, to the even tenth.
OverallScoreIsRoundedMean ==
    (pc = "idle" /\ DOMAIN sessions[1].summary # {}) =>
        LET report == sessions[1].summary
            scores == report.perspectives
            total == scores.technical.score + scores.ux.score
                     + scores.performance.score + scores.data.score
        IN  /\ DOMAIN scores = {"technical", "ux", "performance", "data"}
            /\ 4 * report.overall_score - 10 * total \in -2..2
            /\ (10 * total) % 4 = 2 => report.overall_score % 2 = 0

\* a report whose mean lies on a tie that another rule would round up: the
\* scores 75, 100, 55, 95 have the mean 81.25, reported as 81.2
OverallScoreOnATie ==
    /\ pc = "idle"
    /\ DOMAIN sessions[1].summary # {}
    /\ sessions[1].summary.perspectives.technical.score = 75
    /\ sessions[1].summary.perspectives.ux.score = 100
    /\ sessions[1].summary.perspectives.performance.score = 55
    /\ sessions[1].summary.perspectives.data.score = 95
    /\ sessions[1].summary.overall_score = 812

\* C14: health_grade is "A" when the mean of the four scores is above 85,
\* "B" when it is above 70 and at most 85, "C" otherwise, and the same grade
\* comes from the bands applied to the rounded overall_score.
HealthGradeFollowsBands ==
    (pc = "idle" /\ DOMAIN sessions[1].summary # {}) =>
        LET report == sessions[1].summary
            scores == report.perspectives
            total == scores.technical.score + scores.ux.score
                     + scores.performance.score + scores.data.score
        IN  /\ report.health_grade =
                  (IF total > 4 * 85 THEN "A" ELSE IF total > 4 * 70 THEN "B" ELSE "C")
            /\ report.health_grade =
                  (IF report.overall_score > 850 THEN "A"
                   ELSE IF report.overall_score > 700 THEN "B" ELSE "C")

\* a report whose mean is exactly 85 (85, 70, 90, 95), graded "B"
GradeAtTheBandEdge ==
    /\ pc = "idle"
    /\ DOMAIN sessions[1].summary # {}
    /\ sessions[1].summary.overall_score = 850
    /\ sessions[1].summary.perspectives.ux.score = 70
    /\ sessions[1].summary.health_grade = "B"


\* C15: the technical score is 100 less 15 when any console log has the
\* level error, less 10 when any request failed, less 25 when any error's
\* message contains "session", less 20 when any error is a react_error; with
\* no error log and no failed request it is 100 and critical_issues is
\* empty; an error whose message contains "api" adds an entry to
\* critical_issues and takes nothing from the score.
TechnicalScoreFollowsPenalties ==
    (pc = "idle" /\ DOMAIN sessions[1].summary # {}) =>
        LET logs == sessions[1].console_logs
            requests == sessions[1].network_requests
            technical == sessions[1].summary.perspectives.technical
            errors == {i \in 1..Len(logs) : logs[i].level = "error"}
            failed == {i \in 1..Len(requests) : requests[i].failed}
            about_session == {i \in errors : "session" \in WordsIn(logs[i].message)}
            about_api == {i \in errors : "api" \in WordsIn(logs[i].message)}
            react == {i \in errors : logs[i].type = "react_error"}
            api_issues == {k \in 1..Len(technical.critical_issues) :
                              technical.critical_issues[k].kind = "API error"}
        IN  /\ technical.score = 100 - (IF errors # {} THEN 15 ELSE 0)
                                     - (IF failed # {} THEN 10 ELSE 0)
                                     - (IF about_session # {} THEN 25 ELSE 0)
                                     - (IF react # {} THEN 20 ELSE 0)
            /\ (errors = {} /\ failed = {}) =>
                   (technical.score = 100 /\ technical.critical_issues = <<>>)
            /\ Cardinality(api_issues) = Cardinality(about_api)

\* a session whose only error is about the api: the score has lost the 15
\* of a console error and nothing more, and critical_issues holds the error
ApiErrorOnlyInIssueList ==
    /\ pc = "idle"
    /\ DOMAIN sessions[1].summary # {}
    /\ sessions[1].summary.perspectives.technical.console_errors = 1
    /\ sessions[1].summary.perspectives.technical.api_errors = 1
    /\ sessions[1].summary.perspectives.technical.failed_requests = 0
    /\ sessions[1].summary.perspectives.technical.score = 85
    /\ Len(sessions[1].summary.perspectives.technical.critical_issues) = 1
    /\ sessions[1].summary.perspectives.technical.critical_issues[1].kind = "API error"


\* C16 (as claimed): when exactly one user flow step failed and its action
\* contains "workout", the ux score is 60.
OneFailedWorkoutStepScores60 ==
    (pc = "idle" /\ DOMAIN sessions[1].summary # {}) =>
        LET flows == sessions[1].user_flows
            failed == {i \in 1..Len(flows) : ~flows[i].success}
        IN  (/\ Cardinality(failed) = 1
             /\ \A i \in failed : "workout" \in WordsIn(flows[i].action))
            => sessions[1].summary.perspectives.ux.score = 60


\* C16 (as amended): when exactly one user flow step failed and its action
\* contains "workout", the ux score is 60 if the average timing of the
\* session's steps is at most 5 seconds, and 50 if it is above.
OneFailedWorkoutStepScores60Or50 ==
    (pc = "idle" /\ DOMAIN sessions[1].summary # {}) =>
        LET flows == sessions[1].user_flows
            failed == {i \in 1..Len(flows) : ~flows[i].success}
        IN  (/\ Cardinality(failed) = 1
             /\ \A i \in failed : "workout" \in WordsIn(flows[i].action))
            => sessions[1].summary.perspectives.ux.score =
                   (IF SumTiming(flows) > 5 * Len(flows) THEN 50 ELSE 60)

\* two steps, one of 7 seconds that failed on a workout action and one of 1
\* second that succeeded: the average is 4 and the score 60
OneFailedWorkoutStepQuickOnAverage ==
    /\ pc = "idle"
    /\ DOMAIN sessions[1].summary # {}
    /\ Len(sessions[1].user_flows) = 2
    /\ ~sessions[1].user_flows[1].success
    /\ "workout" \in WordsIn(sessions[1].user_flows[1].action)
    /\ sessions[1].user_flows[2].success
    /\ SumTiming(sessions[1].user_flows) = 8
    /\ sessions[1].summary.perspectives.ux.score = 60


\* C17: each of the four analyzers' scores lies within 0..100, for every
\* session content; the ux score is 100 less 15 per failed step, less 25 if
\* a failed step's action contains "workout", less 10 if the average timing
\* is above 5 seconds, and 0 where that would be negative.
ScoresStayWithin0And100 ==
    (pc = "idle" /\ DOMAIN sessions[1].summary # {}) =>
        LET flows == sessions[1].user_flows
            scores == sessions[1].summary.perspectives
            failed == {i \in 1..Len(flows) : ~flows[i].success}
            penalties == 15 * Cardinality(failed)
                         + (IF \E i \in failed : "workout" \in WordsIn(flows[i].action)
                            THEN 25 ELSE 0)
                         + (IF SumTiming(flows) > 5 * Len(flows) THEN 10 ELSE 0)
        IN  /\ \A p \in DOMAIN scores : scores[p].score \in 0..100
            /\ scores.ux.score = (IF penalties > 100 THEN 0 ELSE 100 - penalties)

\* five failed steps of 7 seconds on a workout action: 100 - 75 - 25 - 10 is
\* below 0 and the ux score is 0
UxScoreClampedAtZero ==
    /\ pc = "idle"
    /\ DOMAIN sessions[1].summary # {}
    /\ Len(sessions[1].user_flows) = 5
    /\ sessions[1].summary.perspectives.ux.failed_user_flows = 5
    /\ sessions[1].summary.perspectives.ux.workout_flow_failures = 5
    /\ SumTiming(sessions[1].user_flows) = 35
    /\ sessions[1].summary.perspectives.ux.score = 0


\* C18: the data score is 95 exactly when every request whose url contains
\* "/api/" has a status from 200 to 299 (so also when there is no such
\* request), and 75 otherwise, however many of them have another status.
DataScoreIs95Or75 ==
    (pc = "idle" /\ DOMAIN sessions[1].summary # {}) =>
        LET requests == sessions[1].network_requests
            api == {i \in 1..Len(requests) : "/api/" \in WordsIn(requests[i].url)}
        IN  sessions[1].summary.perspectives.data.score =
                (IF \A i \in api : requests[i].status \in 200..299 THEN 95 ELSE 75)

\* two api requests, one answered 200 and one 300: the score is 75
OneApiRequestOutOfRange ==
    /\ pc = "idle"
    /\ DOMAIN sessions[1].summary # {}
    /\ Len(sessions[1].network_requests) = 2
    /\ sessions[1].network_requests[1].status = 200
    /\ sessions[1].network_requests[2].status = 300
    /\ sessions[1].summary.perspectives.data.total_api_calls = 2
    /\ sessions[1].summary.perspectives.data.successful_api_calls = 1
    /\ sessions[1].summary.perspectives.data.score = 75


\* C19: the report's critical_issues is, for technical, ux, performance and
\* data in this order, one score entry exactly when the perspective's score
\* is below 70, followed by the perspective's own critical_issues if it has
\* any, and nothing else.
CriticalIssuesInPerspectiveOrder ==
    (pc = "idle" /\ DOMAIN sessions[1].summary # {}) =>
        LET report == sessions[1].summary
            scores == report.perspectives
            ScoreEntry(p) == IF scores[p].score < 70
                             THEN <<[kind |-> "Score", about |-> p, score |-> scores[p].score]>>
                             ELSE <<>>
            Own(p) == IF "critical_issues" \in DOMAIN scores[p]
                      THEN scores[p].critical_issues ELSE <<>>
        IN  report.critical_issues =
                ScoreEntry("technical") \o Own("technical")
                \o ScoreEntry("ux") \o Own("ux")
                \o ScoreEntry("performance") \o Own("performance")
                \o ScoreEntry("data") \o Own("data")

\* technical at 60 with a session error of its own, ux at 70 and data at
\* 95: the list is the technical score entry, then the session error, and
\* no entry for ux
TechnicalEntriesAndNoneForUxAt70 ==
    /\ pc = "idle"
    /\ DOMAIN sessions[1].summary # {}
    /\ sessions[1].summary.perspectives.technical.score = 60
    /\ sessions[1].summary.perspectives.ux.score = 70
    /\ Len(sessions[1].summary.critical_issues) = 2
    /\ sessions[1].summary.critical_issues[1].kind = "Score"
    /\ sessions[1].summary.critical_issues[1].about = "technical"
    /\ sessions[1].summary.critical_issues[2].kind = "Session management error"


\* C20: a script evaluation does not raise, whatever the bridge answers: it
\* returns the decoded JSON value when the bridge exits 0 and its output is
\* JSON, {"raw_output": stdout} when it exits 0 and the output is no JSON,
\* and {"error": stderr} when it exits non-zero.
ScriptEvaluationNeverRaises ==
    last.op = "execute_javascript" =>
        /\ ~last.raised
        /\ last.answer.rc # 0 => last.result.kind = "error"
        /\ (last.answer.rc = 0 /\ last.answer.shape = "invalid") =>
               last.result.kind = "raw_output"
        /\ (last.answer.rc = 0 /\ last.answer.shape = "nondict") =>
               last.result.kind = "nondict"
        /\ (last.answer.rc = 0 /\ last.answer.shape = "dict") =>
               /\ last.result.kind = "value"
               /\ last.result.success = last.answer.success

\* the bridge exited non-zero for a script and the caller holds the error
\* marker
ScriptEvaluationFailedOnTheBridge ==
    /\ last.op = "execute_javascript"
    /\ last.answer.rc # 0
    /\ last.sent
    /\ ~last.raised
    /\ last.result = ErrorResult


\* C21: take_screenshot calls the full-screen capture of the host exactly
\* when its capture request was made and the bridge exited non-zero, and
\* the result of a fallback capture has the status "saved_fallback" or
\* "failed", never "saved" or "captured".
ScreenshotFallsBackOnBridgeFailure ==
    last.op = "take_screenshot" =>
        /\ last.shot.fallback <=> (last.shot.requested /\ last.answer.rc # 0)
        /\ last.shot.fallback =>
               /\ ~last.raised
               /\ last.shot.status \in {"saved_fallback", "failed"}

\* the capture request of a call with a save path failed on the bridge and
\* the full-screen capture was saved
FallbackCaptureSaved ==
    /\ last.op = "take_screenshot"
    /\ last.shot.requested
    /\ last.answer.rc # 0
    /\ last.shot.fallback
    /\ last.shot.status = "saved_fallback"


\* C22 (as claimed): each operation of the client issues its request with
\* the documented method and endpoint: list_tabs GET /json, create_tab GET
\* /json/new?<url>, close_tab DELETE /json/close/<id>, activate_tab POST
\* /json/activate/<id>, get_version GET /json/version.
RequestsUseDocumentedMethods ==
    /\ last.op = "list_tabs" =>
           last.request = [method |-> "GET", path |-> "/json", arg |-> None]
    /\ last.op = "create_tab" =>
           last.request = [method |-> "GET", path |-> "/json/new?", arg |-> last.arg]
    /\ last.op = "close_tab" =>
           last.request = [method |-> "DELETE", path |-> "/json/close/", arg |-> last.arg]
    /\ last.op = "activate_tab" =>
           last.request = [method |-> "POST", path |-> "/json/activate/", arg |-> last.arg]
    /\ last.op = "get_version" =>
           last.request = [method |-> "GET", path |-> "/json/version", arg |-> None]


\* C23 (as claimed): a scenario whose text contains none of the eight
\* fixed strings invokes no interaction primitive and is recorded with
\* success true, whatever the browser does.
UnmatchedScenarioSucceeds ==
    (iter.idx > 0 /\ iter.scenario = UnmatchedScenario) =>
        /\ NumCalls(iter.scenario) = 0
        /\ iter.step.action = UnmatchedScenario
        /\ iter.step.success


\* C24: get_session_report raises nothing and changes no session and not
\* the current-session pointer; for the id given, or the current session
\* when none is given, it returns the error "Session not found" when the id
\* is not in the store, the error "Session analysis not complete" when the
\* session's summary is empty, and the stored summary otherwise.
GetSessionReportReadsOnly ==
    /\ [](last.op = "get_session_report" =>
            LET id == IF last.arg = None THEN current_session ELSE last.arg IN
            /\ ~last.raised
            /\ (id = None \/ id \notin DOMAIN sessions) =>
                   last.report = [error |-> "Session not found"]
            /\ (id # None /\ id \in DOMAIN sessions) =>
                   IF DOMAIN sessions[id].summary = {}
                   THEN last.report = [error |-> "Session analysis not complete"]
                   ELSE last.report = sessions[id].summary)
    /\ [][(last'.op = "get_session_report" /\ ncalls' = ncalls + 1) =>
            (sessions' = sessions /\ current_session' = current_session)]_vars

\* the report of an analysed session was asked for without an id and the
\* stored summary came back
StoredSummaryReturned ==
    /\ last.op = "get_session_report"
    /\ last.arg = None
    /\ current_session # None
    /\ sessions[current_session].completed = 1
    /\ "overall_score" \in DOMAIN last.report
    /\ last.report = sessions[current_session].summary


\* C25 (as claimed): every screenshot take_screenshot saves while a session
\* is current is appended to that session's screenshots, and so the report's
\* summary.screenshots_taken is the number of screenshots saved for the
\* session.
SavedScreenshotsAreRecorded ==
    [][(/\ last'.op = "take_screenshot"
        /\ ncalls' = ncalls + 1
        /\ last'.shot.status = "saved"
        /\ current_session # None)
       => Len(sessions'[current_session].screenshots)
              = Len(sessions[current_session].screenshots) + 1]_vars


\* C26 (as claimed): the scenario "Select exercise from workout types",
\* once its screenshot is taken, is recorded with success true whenever its
\* click reports success, and with success false only when the click
\* reports failure.
SelectExerciseFollowsItsClick ==
    (/\ iter.idx > 0
     /\ iter.scenario = FixedScenarios[3]
     /\ iter.executed
     /\ iter.clickable)
    => iter.step.success


\* C27 (as claimed): whenever session start and analyze_webapp both complete
\* without raising, debug_fitforge returns the analysis report, which is
\* the summary stored for the session; it returns None only when one of the
\* two raised.
DebugFitforgeReturnsTheReport ==
    (pc = "idle" /\ last.op = "debug_fitforge") =>
        /\ last.result.kind = "analysed" =>
               last.report = sessions[current_session].summary
        /\ last.report = ReturnedNone =>
               last.result.kind \in {"start_raised", "analysis_raised"}


\* C28: in every report analyze_webapp produces, on a first analysis of a
\* session and on any later one, the performance score is 90 with the grade
\* "A" and the data score is 95, and the report has no critical issue and
\* no next step for performance or data.
PerformanceAndDataScoresAreFixed ==
    \A id \in DOMAIN sessions :
        DOMAIN sessions[id].summary # {} =>
            LET report == sessions[id].summary IN
            /\ report.perspectives.performance.score = 90
            /\ report.perspectives.performance.performance_grade = "A"
            /\ report.perspectives.data.score = 95
            /\ \A k \in 1..Len(report.critical_issues) :
                   report.critical_issues[k].about \notin {"performance", "data"}
            /\ \A k \in 1..Len(report.next_steps) :
                   report.next_steps[k] \notin
                       {"Optimize page load times and memory usage",
                        "Improve API reliability and error handling"}

\* a session analysed three times: it holds six requests and its report has
\* the two scores
ThirdReportOfASession ==
    /\ pc = "idle"
    /\ current_session # None
    /\ sessions[current_session].completed = 3
    /\ Len(sessions[current_session].network_requests) = 6
    /\ last.report = sessions[current_session].summary
    /\ sessions[current_session].summary.perspectives.performance.score = 90
    /\ sessions[current_session].summary.perspectives.data.score = 95


\* C29: the four perspective scores, the overall score and the health grade
\* of a report do not depend on the session's event list: the same session
\* with any other event list gets the same scores and grade, and of the
\* whole report only the summary can differ.
ScoresDoNotDependOnEvents ==
    (pc = "idle" /\ DOMAIN sessions[1].summary # {}) =>
        \A events \in EventInputs :
            \E other \in {GenerateDebugReport([sessions[1] EXCEPT !.events = events],
                                              Analyze([sessions[1] EXCEPT !.events = events]))} :
                /\ \A p \in {"technical", "ux", "performance", "data"} :
                       other.perspectives[p].score = sessions[1].summary.perspectives[p].score
                /\ other.overall_score = sessions[1].summary.overall_score
                /\ other.health_grade = sessions[1].summary.health_grade
                /\ [other EXCEPT !.summary = sessions[1].summary.summary] = sessions[1].summary

\* a session with one error-level event and a failed step: its report counts
\* one error, the report of the same session without events counts none and
\* both have the ux score 85 and the same overall score
ErrorEventOnlyInTheSummary ==
    /\ pc = "idle"
    /\ DOMAIN sessions[1].summary # {}
    /\ Len(sessions[1].events) = 1
    /\ sessions[1].events[1].level = "error"
    /\ sessions[1].summary.summary.errors = 1
    /\ sessions[1].summary.perspectives.ux.score = 85
    /\ \E other \in {GenerateDebugReport([sessions[1] EXCEPT !.events = <<>>],
                                         Analyze([sessions[1] EXCEPT !.events = <<>>]))} :
           /\ other.summary.errors = 0
           /\ other.perspectives.ux.score = 85
           /\ other.overall_score = sessions[1].summary.overall_score

\* C30: in every state the current session is unset or the id of a session
\* in the store; no step removes a session from the store; every step that
\* registers a session makes the new session current, and no other step
\* changes the current session.  So _log_event always finds its session.
CurrentSessionIsInTheStore ==
    /\ [](current_session = None \/ current_session \in DOMAIN sessions)
    /\ [][/\ DOMAIN sessions \subseteq DOMAIN sessions'
          /\ DOMAIN sessions' # DOMAIN sessions =>
                 current_session' \in DOMAIN sessions' \ DOMAIN sessions
          /\ current_session' # current_session =>
                 DOMAIN sessions' # DOMAIN sessions]_vars

\* start_debug_session called twice, Chrome not starting the second time:
\* the first session is still in the store and the second is current
SecondSessionCurrentThoughChromeFailed ==
    /\ Cardinality(DOMAIN sessions) = 2
    /\ current_session = 2
    /\ last.op = "start_debug_session"
    /\ last.raised
    /\ sessions[1].session_id = 1

====
